---- MODULE Spec2Model ----
(***************************************************************************)
(* Model of the monitoring core of qcc_plus:                                *)
(*   - the WebSocket broadcast hub        (internal/proxy/ws_hub.go)        *)
(*   - the settings HTTP handlers         (proxy/SettingsHandler)           *)
(*   - the raw-metrics ingest             (internal/store/metrics.go)       *)
(* Each subsystem has its own variables and its own specification; a        *)
(* specification leaves the variables of the other subsystems unchanged.    *)
(***************************************************************************)
EXTENDS Integers, Sequences, FiniteSets, Bags, TLC

(***************************************************************************)
(* Bounds of the model.  The channel capacities are scaled down from the    *)
(* values of the code (register 10, unregister 10, broadcast 256, client    *)
(* send 256): the behaviour depends on "full / not full" only.              *)
(***************************************************************************)
MaxClients == 2

MaxMsgs == 4

RegisterCap == 1

UnregisterCap == 1

BroadcastCap == 2

SendCap == 2

MaxPuts == 2

MaxBatchLen == 2

MaxReqVersion == 2

\* Width of the counters (64 bits in the code, scaled down).
CounterBits == 3

MaxRaw == 1

MaxTime == 1

\* Time units in an hour, hours in a day and days in a month (scaled down).
HourLen == 2

HoursPerDay == 2

DaysPerMonth == 2

\* Instants the store's callers use: 1..MaxStoreTime (0 is the zero time.Time).
MaxStoreTime == 2

\* Raw rows inserted in the store model.
MaxStoreRows == 2

\* Stop calls, and ticks each scheduler loop runs.
MaxStoppers == 2

MaxTicks == 1

\* Callbacks registered, mutations of the settings table and Refresh calls
\* of the settings cache.
MaxCallbacks == 1

MaxEvents == 1

MaxRefreshes == 2

\* Days a build date may fall on.
MaxBuildDay == 2

Accounts == {"a1", "a2"}

Clients == 1..MaxClients

(***************************************************************************)
(* Broadcast hub state.                                                     *)
(*   clients      h.clients: account id -> set of registered clients        *)
(*   registerCh, unregisterCh, broadcastCh: the hub's three channels        *)
(*   hubPc        position of the Run goroutine:                            *)
(*                  "select"     waiting in the select of Run               *)
(*                  "range"      inside the for-range of broadcastToAccount *)
(*                  "send_unreg" at `h.unregister <- client` (blocking)     *)
(*   fanData, fanTodo, fanCur: the frame being fanned out, the clients the  *)
(*                range loop has not visited yet, the client being evicted  *)
(*   accountID    WSClient.accountID of every created client                *)
(*   conn         "none" (not created), "open" (pumps running),             *)
(*                "gone" (a pump has exited)                                *)
(*   send, closed WSClient.send: buffered frames, and whether it is closed  *)
(*   lastWritten  the last frame the writer loop wrote to the socket        *)
(*   nextSeq      number of messages accepted onto the broadcast channel    *)
(*   fullFound    clients whose queue some broadcast has found full         *)
(***************************************************************************)
VARIABLES clients, registerCh, unregisterCh, broadcastCh, hubPc, fanData,
          fanTodo, fanCur, accountID, conn, send, closed, lastWritten,
          nextSeq, fullFound

hubVars == <<clients, registerCh, unregisterCh, broadcastCh, hubPc, fanData,
             fanTodo, fanCur, accountID, conn, send, closed, lastWritten,
             nextSeq, fullFound>>

(***************************************************************************)
(* Settings state.                                                          *)
(*   settings     the settings table: key -> row; a row of version 0 is an  *)
(*                absent row.  A key stands for (key, scope, account_id).   *)
(*   putPc, putReq, putExisting, putResp: the PUT /api/settings/{key}       *)
(*                requests: position of the handler ("new", "read" after    *)
(*                GetSetting, "done"), the request, the row GetSetting      *)
(*                returned and the response written                         *)
(*   nBatch, lastBatch: number of POST /api/settings/batch calls and the    *)
(*                request and response of the last one                      *)
(*   wlog         per key, the successful writes in order (who wrote, the   *)
(*                row version found, the version the request carried)       *)
(***************************************************************************)
VARIABLES settings, putPc, putReq, putExisting, putResp, nBatch, lastBatch, wlog

settingsVars == <<settings, putPc, putReq, putExisting, putResp, nBatch,
                  lastBatch, wlog>>

(***************************************************************************)
(* Raw-metrics ingest state.                                                *)
(*   rec          the MetricsRecord the caller passes to InsertMetrics      *)
(*   rawRows      the rows of node_metrics_raw, in insertion order          *)
(***************************************************************************)
VARIABLES rec, rawRows

ingestVars == <<rec, rawRows>>

(***************************************************************************)
(* Time store state (with rawRows, the raw table).                          *)
(*   aggTbl       node_metrics_hourly / _daily / _monthly: for "hour",      *)
(*                "day", "month" the set of rows of the table               *)
(*   storeOps     number of AggregateMetrics / CleanupMetrics /             *)
(*                QueryMetrics calls so far                                 *)
(*   lastCall     the last of these calls: its name, whether it returned    *)
(*                an error, and its arguments                               *)
(*   queryRes     the rows the last QueryMetrics returned                   *)
(***************************************************************************)
VARIABLES aggTbl, storeOps, lastCall, queryRes

storeVars == <<aggTbl, storeOps, lastCall, queryRes>>

(***************************************************************************)
(* Metrics scheduler state.                                                 *)
(*   schedStarted whether Start has run                                     *)
(*   stopCh       m.stopCh: "open" or "closed"                              *)
(*   stopCloses   number of close(m.stopCh) executed                        *)
(*   stopOnce     m.stopOnce: whether its function has run                  *)
(*   wg           counter of m.wg                                           *)
(*   loopPc       position of each loop goroutine: "idle" (not started),    *)
(*                "timer" (select on the initial timer), "ticker" (select   *)
(*                on the ticker), "task" (inside runAggregation or          *)
(*                runCleanup), "exited"                                     *)
(*   taskCtx      the context of the running task: "none", "live",          *)
(*                "expired" (deadline passed), "cancelled"                  *)
(*   panicked     loops that ended by a recovered panic                     *)
(*   ticks        number of tasks each loop has started                     *)
(*   invoked      the storage calls of the running task, in order: the      *)
(*                step and the state of the context handed to it            *)
(*   stopPc       each Stop call: "idle", "wait" (in the select), "done"    *)
(*                (wait group reached zero), "timeout" (forced exit)        *)
(***************************************************************************)
VARIABLES schedStarted, stopCh, stopCloses, stopOnce, wg, loopPc, taskCtx,
          panicked, ticks, invoked, stopPc

schedVars == <<schedStarted, stopCh, stopCloses, stopOnce, wg, loopPc,
               taskCtx, panicked, ticks, invoked, stopPc>>

(***************************************************************************)
(* Settings cache state.                                                    *)
(*   cachePc      "new" before NewSettingsCache, then "ready"               *)
(*   cacheData    c.data: key -> value, Nil for a key the map does not hold *)
(*   cacheVersion c.version                                                 *)
(*   nCallbacks   length of c.onChange; callback f is the f-th registered   *)
(*   calls        the callback invocations so far, as a bag of (callback,   *)
(*                key, value, ev), ev being the mutation of the table that  *)
(*                produced the value                                        *)
(*   wPc, wArgs   the Set or UpdateLocal under way: "idle", "stored" (the   *)
(*                table is written), "notify" (the map is written)          *)
(*   refPc        the Refresh under way: "idle", "read" (ListSettings has   *)
(*                returned), "notify" (the map is replaced)                 *)
(*   refSnap, refEv: the rows ListSettings returned, and for every key the  *)
(*                mutation that made it what it was then                    *)
(*   refOld       the map the Refresh found under the lock                  *)
(*   refChanged, refRemoved: the locals changed and removed of reload       *)
(*   nRefresh     number of Refresh calls                                   *)
(*   nEvents, rowEvent: number of mutations of the table, and for every     *)
(*                key the last mutation of its row                          *)
(*   reads        the outcomes of the ListSettings calls, in order: "ok",   *)
(*                "err"                                                     *)
(***************************************************************************)
VARIABLES cachePc, cacheData, cacheVersion, nCallbacks, calls, wPc, wArgs,
          refPc, refSnap, refEv, refOld, refChanged, refRemoved, nRefresh,
          nEvents, rowEvent, reads

cacheVars == <<cachePc, cacheData, cacheVersion, nCallbacks, calls, wPc,
               wArgs, refPc, refSnap, refEv, refOld, refChanged, refRemoved,
               nRefresh, nEvents, rowEvent, reads>>

\* The cache state a mutation of the table by another component leaves alone.
cacheVars2 == <<cachePc, cacheData, cacheVersion, nCallbacks, calls, wPc,
                wArgs, refPc, refSnap, refEv, refOld, refChanged, refRemoved,
                nRefresh, reads>>

(***************************************************************************)
(* HTTP edge state: one request to one handler.                             *)
(*   edgeReq      the request, as the handler sees it                       *)
(*   edgeResp     the response written: status (0: none yet) and body       *)
(*   edgeStore    the store calls the handler made, in order                *)
(***************************************************************************)
VARIABLES edgeReq, edgeResp, edgeStore

edgeVars == <<edgeReq, edgeResp, edgeStore>>

(***************************************************************************)
(* Goroutines started by taskContext.                                       *)
(*   watchers     per loop, the goroutines of taskContext that have not     *)
(*                returned yet                                              *)
(***************************************************************************)
VARIABLES watchers

watchVars == <<watchers>>

(***************************************************************************)
(* Locking of the settings cache (c.mu), by goroutine.                      *)
(*   muWriter     the goroutine inside c.mu.Lock() ... Unlock(), or "none"  *)
(*   muReaders    per goroutine, the RLocks it holds                        *)
(*   muWaiting    the goroutines blocked in c.mu.Lock()                     *)
(*   stack        per goroutine, the cache methods it is inside, the        *)
(*                innermost last: the method and the next instruction       *)
(*   finished     the goroutines whose call has returned                    *)
(*   heldCalls    number of callback invocations made by a goroutine that   *)
(*                held c.mu at that moment                                  *)
(***************************************************************************)
VARIABLES muWriter, muReaders, muWaiting, stack, finished, heldCalls

lockVars == <<muWriter, muReaders, muWaiting, stack, finished, heldCalls>>

vars == <<hubVars, settingsVars, ingestVars, storeVars, schedVars, cacheVars, edgeVars, watchVars, lockVars>>

notHub == <<settingsVars, ingestVars, storeVars, schedVars, cacheVars, edgeVars, watchVars, lockVars>>

notSettings == <<hubVars, ingestVars, storeVars, schedVars, cacheVars, edgeVars, watchVars, lockVars>>

notIngest == <<hubVars, settingsVars, storeVars, schedVars, cacheVars, edgeVars, watchVars, lockVars>>

notStore == <<hubVars, settingsVars, rec, schedVars, cacheVars, edgeVars, watchVars, lockVars>>

notSched == <<hubVars, settingsVars, ingestVars, storeVars, cacheVars, edgeVars, watchVars, lockVars>>

notCache == <<hubVars, settingsVars, ingestVars, storeVars, schedVars, edgeVars, watchVars, lockVars>>

notEdge == <<hubVars, settingsVars, ingestVars, storeVars, schedVars, cacheVars, watchVars, lockVars>>

notWatch == <<hubVars, settingsVars, ingestVars, storeVars, schedVars, cacheVars, edgeVars, lockVars>>

notLock == <<hubVars, settingsVars, ingestVars, storeVars, schedVars, cacheVars, edgeVars, watchVars>>

NoFrame == [account_id |-> "", payload |-> 0]

NoClient == 0

\* WSMessage{AccountID, Type, Payload}: the payload stands for type+payload and
\* is the number of the message in the order of acceptance onto the channel.
WSMessage(a, n) == [AccountID |-> a, Payload |-> n]

\* json.Marshal(message): the frame carries the message's account_id and payload.
Marshal(m) == [account_id |-> m.AccountID, payload |-> m.Payload]

HubInit ==
    /\ clients = [a \in Accounts |-> {}]
    /\ registerCh = <<>>
    /\ unregisterCh = <<>>
    /\ broadcastCh = <<>>
    /\ hubPc = "select"
    /\ fanData = NoFrame
    /\ fanTodo = {}
    /\ fanCur = NoClient
    /\ accountID = [c \in Clients |-> ""]
    /\ conn = [c \in Clients |-> "none"]
    /\ send = [c \in Clients |-> <<>>]
    /\ closed = [c \in Clients |-> FALSE]
    /\ lastWritten = [c \in Clients |-> NoFrame]
    /\ nextSeq = 0
    /\ fullFound = {}

\* handleMonitorWebSocket, after authentication and upgrade: create the client
\* with the resolved account, send it on the register channel (blocks while the
\* channel is full) and start the pumps.  A client identifier names a fresh
\* *WSClient; identifiers are handed out in the order of creation.
NewClient(c, a) ==
    /\ conn[c] = "none"
    /\ \A d \in Clients : d < c => conn[d] # "none"
    /\ Len(registerCh) < RegisterCap
    /\ accountID' = [accountID EXCEPT ![c] = a]
    /\ conn' = [conn EXCEPT ![c] = "open"]
    /\ registerCh' = Append(registerCh, c)
    /\ UNCHANGED <<clients, unregisterCh, broadcastCh, hubPc, fanData, fanTodo,
                   fanCur, send, closed, lastWritten, nextSeq, fullFound>>

Connect(c, a) ==
    /\ NewClient(c, a)
    /\ UNCHANGED notHub

\* WSHub.Broadcast: blocks while the broadcast channel is full.
Broadcast(a) ==
    /\ nextSeq < MaxMsgs
    /\ Len(broadcastCh) < BroadcastCap
    /\ nextSeq' = nextSeq + 1
    /\ broadcastCh' = Append(broadcastCh, WSMessage(a, nextSeq + 1))
    /\ UNCHANGED <<clients, registerCh, unregisterCh, hubPc, fanData, fanTodo,
                   fanCur, accountID, conn, send, closed, lastWritten, fullFound>>
    /\ UNCHANGED notHub

\* addClient
addClient(c) ==
    clients' = [clients EXCEPT ![accountID[c]] = @ \cup {c}]

\* Run, case client := <-h.register
HubRegister ==
    /\ hubPc = "select"
    /\ registerCh # <<>>
    /\ addClient(Head(registerCh))
    /\ registerCh' = Tail(registerCh)
    /\ UNCHANGED <<unregisterCh, broadcastCh, hubPc, fanData, fanTodo, fanCur,
                   accountID, conn, send, closed, lastWritten, nextSeq, fullFound>>
    /\ UNCHANGED notHub

\* removeClient: only a client still in the map is deleted and has its queue closed.
removeClientCloseOnly(c) ==
    IF c \in clients[accountID[c]]
    THEN /\ closed' = [closed EXCEPT ![c] = TRUE]
         /\ UNCHANGED clients
    ELSE UNCHANGED <<clients, closed>>

removeClient(c) ==
    IF c \in clients[accountID[c]]
    THEN /\ clients' = [clients EXCEPT ![accountID[c]] = @ \ {c}]
         /\ closed' = [closed EXCEPT ![c] = TRUE]
    ELSE UNCHANGED <<clients, closed>>

\* Run, case client := <-h.unregister
HubUnregister ==
    /\ hubPc = "select"
    /\ unregisterCh # <<>>
    /\ removeClient(Head(unregisterCh))
    /\ unregisterCh' = Tail(unregisterCh)
    /\ UNCHANGED <<registerCh, broadcastCh, hubPc, fanData, fanTodo, fanCur,
                   accountID, conn, send, lastWritten, nextSeq, fullFound>>
    /\ UNCHANGED notHub

\* The clients a broadcast for account a is fanned out to: h.clients[a].
TargetClientsAll(a) == UNION {clients[x] : x \in Accounts}

TargetClients(a) == clients[a]

\* message := <-h.broadcast: the oldest message of the channel, and the channel
\* without it.
ChanRecvNewest(ch) == <<ch[Len(ch)], SubSeq(ch, 1, Len(ch) - 1)>>

ChanRecv(ch) == <<Head(ch), Tail(ch)>>

\* Run, case message := <-h.broadcast, and broadcastToAccount up to the range loop.
HubBroadcast ==
    /\ hubPc = "select"
    /\ broadcastCh # <<>>
    /\ broadcastCh' = ChanRecv(broadcastCh)[2]
    /\ LET message == ChanRecv(broadcastCh)[1]
           targets == TargetClients(message.AccountID)
       IN IF targets = {}
          THEN UNCHANGED <<hubPc, fanData, fanTodo>>
          ELSE /\ hubPc' = "range"
               /\ fanData' = Marshal(message)
               /\ fanTodo' = targets
    /\ UNCHANGED <<clients, registerCh, unregisterCh, fanCur, accountID, conn,
                   send, closed, lastWritten, nextSeq, fullFound>>
    /\ UNCHANGED notHub

\* client.send <- data on a buffered channel: the frame goes to the back.
Enqueue(q, d) == Append(q, d)

\* One iteration of `for client := range clients` (any order): the non-blocking
\* send succeeds when the queue has room, otherwise the default branch is taken
\* and the loop is at `h.unregister <- client`.
HubVisit(c) ==
    /\ hubPc = "range"
    /\ c \in fanTodo
    /\ fanTodo' = fanTodo \ {c}
    /\ IF Len(send[c]) < SendCap
       THEN /\ send' = [send EXCEPT ![c] = Enqueue(@, fanData)]
            /\ hubPc' = IF fanTodo' = {} THEN "select" ELSE "range"
            /\ UNCHANGED <<fanCur, fullFound>>
       ELSE /\ hubPc' = "send_unreg"
            /\ fanCur' = c
            /\ fullFound' = fullFound \cup {c}
            /\ UNCHANGED send
    /\ UNCHANGED <<clients, registerCh, unregisterCh, broadcastCh, fanData,
                   accountID, conn, closed, lastWritten, nextSeq>>
    /\ UNCHANGED notHub

\* `h.unregister <- client` in the default branch: a blocking send by the Run
\* goroutine itself; it completes only when the unregister channel has room.
HubSendUnregister ==
    /\ hubPc = "send_unreg"
    /\ Len(unregisterCh) < UnregisterCap
    /\ unregisterCh' = Append(unregisterCh, fanCur)
    /\ fanCur' = NoClient
    /\ hubPc' = IF fanTodo = {} THEN "select" ELSE "range"
    /\ UNCHANGED <<clients, registerCh, broadcastCh, fanData, fanTodo, accountID,
                   conn, send, closed, lastWritten, nextSeq, fullFound>>
    /\ UNCHANGED notHub

\* Writer loop of a client: takes the next frame of the outbound queue and
\* writes it to the socket.
WritePump(c) ==
    /\ conn[c] = "open"
    /\ send[c] # <<>>
    /\ lastWritten' = [lastWritten EXCEPT ![c] = Head(send[c])]
    /\ send' = [send EXCEPT ![c] = Tail(@)]
    /\ UNCHANGED <<clients, registerCh, unregisterCh, broadcastCh, hubPc, fanData,
                   fanTodo, fanCur, accountID, conn, closed, nextSeq, fullFound>>
    /\ UNCHANGED notHub

\* A pump of the client exits (socket error or close): the client is sent on
\* the unregister channel, once.
PumpExit(c) ==
    /\ conn[c] = "open"
    /\ Len(unregisterCh) < UnregisterCap
    /\ conn' = [conn EXCEPT ![c] = "gone"]
    /\ unregisterCh' = Append(unregisterCh, c)
    /\ UNCHANGED <<clients, registerCh, broadcastCh, hubPc, fanData, fanTodo,
                   fanCur, accountID, send, closed, lastWritten, nextSeq, fullFound>>
    /\ UNCHANGED notHub

HubNext ==
    \/ \E c \in Clients, a \in Accounts : Connect(c, a)
    \/ \E a \in Accounts : Broadcast(a)
    \/ HubRegister
    \/ HubUnregister
    \/ HubBroadcast
    \/ \E c \in Clients : HubVisit(c)
    \/ HubSendUnregister
    \/ \E c \in Clients : WritePump(c)

\* The other pump of the client exits as well and sends the client on the
\* unregister channel a second time.
SecondPumpExit(c) ==
    /\ conn[c] = "gone"
    /\ Len(unregisterCh) < UnregisterCap
    /\ conn' = [conn EXCEPT ![c] = "closed"]
    /\ unregisterCh' = Append(unregisterCh, c)
    /\ UNCHANGED <<clients, registerCh, broadcastCh, hubPc, fanData, fanTodo,
                   fanCur, accountID, send, closed, lastWritten, nextSeq, fullFound>>
    /\ UNCHANGED notHub

HubPumpsNext ==
    \/ HubNext
    \/ \E c \in Clients : PumpExit(c)

\* The hub with clients of one account that no longer drain their queue:
\* both pumps of a client exit, each with its own unregister, and broadcasts
\* find queues full.
HubExitsNext ==
    \/ \E c \in Clients : Connect(c, "a1")
    \/ Broadcast("a1")
    \/ HubRegister
    \/ HubUnregister
    \/ HubBroadcast
    \/ \E c \in Clients : HubVisit(c)
    \/ HubSendUnregister
    \/ \E c \in Clients : PumpExit(c)
    \/ \E c \in Clients : SecondPumpExit(c)


(***************************************************************************)
(* Settings: the store (SettingsStore, modelled from its contract) and the  *)
(* HTTP handlers of SettingsHandler.  Storage failures are not modelled:    *)
(* every store call reaches the table.                                      *)
(***************************************************************************)
Keys == {"k1", "k2"}

Puts == 1..MaxPuts

ReqVersions == 0..MaxReqVersion

NoRow == [version |-> 0, value |-> 0]

NoResp == [status |-> 0, new_version |-> 0, current_version |-> 0]

NoPut == [key |-> "", version |-> 0, admin |-> FALSE]

Resp(st, nv, cv) == [status |-> st, new_version |-> nv, current_version |-> cv]

\* A row written before the first request: version 1, written by nobody here.
SeedRow == [version |-> 1, value |-> 0]

SeedWrite == [by |-> 0, prior |-> 0, req |-> 0]

\* The settings subsystem at rest (used by the specifications of the others).
SettingsIdle ==
    /\ settings = [k \in Keys |-> NoRow]
    /\ putPc = [r \in Puts |-> "new"]
    /\ putReq = [r \in Puts |-> NoPut]
    /\ putExisting = [r \in Puts |-> NoRow]
    /\ putResp = [r \in Puts |-> NoResp]
    /\ nBatch = 0
    /\ lastBatch = [items |-> <<>>, admin |-> FALSE, status |-> 0, version |-> 0]
    /\ wlog = [k \in Keys |-> <<>>]

\* Every key is absent or holds a row created earlier.
SettingsInit ==
    /\ settings \in [Keys -> {NoRow, SeedRow}]
    /\ wlog = [k \in Keys |-> IF settings[k] = NoRow THEN <<>> ELSE <<SeedWrite>>]
    /\ putPc = [r \in Puts |-> "new"]
    /\ putReq = [r \in Puts |-> NoPut]
    /\ putExisting = [r \in Puts |-> NoRow]
    /\ putResp = [r \in Puts |-> NoResp]
    /\ nBatch = 0
    /\ lastBatch = [items |-> <<>>, admin |-> FALSE, status |-> 0, version |-> 0]

\* The table before a batch call: every key is absent or holds a row that
\* earlier updates brought to some version.
BatchInit ==
    /\ settings \in [Keys -> {NoRow} \cup {[version |-> n, value |-> 0] : n \in 1..MaxReqVersion}]
    /\ wlog = [k \in Keys |-> IF settings[k] = NoRow THEN <<>> ELSE <<SeedWrite>>]
    /\ putPc = [r \in Puts |-> "new"]
    /\ putReq = [r \in Puts |-> NoPut]
    /\ putExisting = [r \in Puts |-> NoRow]
    /\ putResp = [r \in Puts |-> NoResp]
    /\ nBatch = 0
    /\ lastBatch = [items |-> <<>>, admin |-> FALSE, status |-> 0, version |-> 0]

\* SettingsStore.GetSetting: the row, or NoRow (nil, ErrNotFound) when absent.
GetSetting(k) == settings[k]

\* SettingsStore.UpsertSetting: create, or replace without a version check; the
\* resulting version (1 on creation, current + 1 otherwise) is set on s.
UpsertSetting(row, val) == [version |-> row.version + 1, value |-> val]

\* SettingsStore.UpdateSetting: UPDATE ... WHERE key, scope, account_id and
\* version = s.version; no row updated is ErrNotFound for an absent key and
\* ErrVersionConflict otherwise.  On success the version is bumped, on the
\* row and on s.
UpdateSetting(row, ver, val) ==
    IF row = NoRow THEN [err |-> "not_found", row |-> row]
    ELSE IF row.version # ver THEN [err |-> "version_conflict", row |-> row]
    ELSE [err |-> "", row |-> [version |-> row.version + 1, value |-> val]]

\* SettingsStore.GetGlobalVersion: MAX(version), 0 for an empty table.
GetGlobalVersion(tbl) ==
    CHOOSE m \in {tbl[k].version : k \in Keys} :
        \A k \in Keys : tbl[k].version <= m

\* UpdateSetting (handler), after GetSetting: what the handler does with the
\* row it read and the version of the request.
PutDecisionNoZeroCheck(existing, ver) ==
    IF existing = NoRow THEN "create"
    ELSE IF ver # existing.version THEN "conflict"
    ELSE "update"

PutDecision(existing, ver) ==
    IF existing = NoRow THEN "create"
    ELSE IF ver = 0 THEN "bad_request"
    ELSE IF ver # existing.version THEN "conflict"
    ELSE "update"

\* UpdateSetting (handler): the status for an error of store.UpdateSetting.
UpdateErrStatusAllInternal(err) == 500

UpdateErrStatus(err) ==
    IF err = "version_conflict" THEN 409
    ELSE IF err = "not_found" THEN 404
    ELSE 500

\* UpdateSetting (handler), first part: the admin check, the decoding of the
\* request and store.GetSetting.
PutRead(r, k, v, admin) ==
    /\ putPc[r] = "new"
    /\ \A q \in Puts : q < r => putPc[q] # "new"
    /\ putReq' = [putReq EXCEPT ![r] = [key |-> k, version |-> v, admin |-> admin]]
    /\ IF ~admin
       THEN /\ putPc' = [putPc EXCEPT ![r] = "done"]
            /\ putResp' = [putResp EXCEPT ![r] = Resp(403, 0, 0)]
            /\ UNCHANGED putExisting
       ELSE /\ putPc' = [putPc EXCEPT ![r] = "read"]
            /\ putExisting' = [putExisting EXCEPT ![r] = GetSetting(k)]
            /\ UNCHANGED putResp
    /\ UNCHANGED <<settings, nBatch, lastBatch, wlog>>
    /\ UNCHANGED notSettings

Written(r, prior, ver) == [by |-> r, prior |-> prior, req |-> ver]

\* UpdateSetting (handler), second part: creation through UpsertSetting, the
\* version checks, store.UpdateSetting and the response.
PutWrite(r) ==
    /\ putPc[r] = "read"
    /\ putPc' = [putPc EXCEPT ![r] = "done"]
    /\ LET k == putReq[r].key
           ver == putReq[r].version
           existing == putExisting[r]
           decision == PutDecision(existing, ver)
           upserted == UpsertSetting(settings[k], r)
           updated == UpdateSetting(settings[k], ver, r)
       IN CASE decision = "create" ->
                 /\ settings' = [settings EXCEPT ![k] = upserted]
                 /\ wlog' = [wlog EXCEPT ![k] = Append(@, Written(r, settings[k].version, ver))]
                 /\ putResp' = [putResp EXCEPT ![r] = Resp(200, upserted.version, 0)]
            [] decision = "bad_request" ->
                 /\ putResp' = [putResp EXCEPT ![r] = Resp(400, 0, 0)]
                 /\ UNCHANGED <<settings, wlog>>
            [] decision = "conflict" ->
                 /\ putResp' = [putResp EXCEPT ![r] = Resp(409, 0, existing.version)]
                 /\ UNCHANGED <<settings, wlog>>
            [] decision = "update" /\ updated.err = "" ->
                 /\ settings' = [settings EXCEPT ![k] = updated.row]
                 /\ wlog' = [wlog EXCEPT ![k] = Append(@, Written(r, settings[k].version, ver))]
                 /\ putResp' = [putResp EXCEPT ![r] = Resp(200, updated.row.version, 0)]
            [] decision = "update" /\ updated.err # "" ->
                 /\ putResp' = [putResp EXCEPT ![r] =
                        Resp(UpdateErrStatus(updated.err), 0,
                             IF updated.err = "version_conflict"
                             THEN existing.version ELSE 0)]
                 /\ UNCHANGED <<settings, wlog>>
    /\ UNCHANGED <<putReq, putExisting, nBatch, lastBatch>>
    /\ UNCHANGED notSettings



\* strings.TrimSpace on the keys a batch may carry.
TrimSpace(key) ==
    CASE key = " k1" -> "k1"
      [] key = " " -> ""
      [] OTHER -> key

BatchKeys == {"k1", "k2", " k1", " "}

BatchItems == [key : BatchKeys, version : ReqVersions]

BatchInputs == UNION {[1..n -> BatchItems] : n \in 1..MaxBatchLen}

\* BatchUpdate (handler), lines 433-442: the keys trimmed.
TrimmedItems(items) ==
    [i \in 1..Len(items) |-> [key |-> TrimSpace(items[i].key), version |-> items[i].version]]

RECURSIVE BatchApply(_, _, _)
BatchApply(tbl, items, val) ==
    IF items = <<>> THEN [err |-> "", tbl |-> tbl]
    ELSE LET it == Head(items)
             res == UpdateSetting(tbl[it.key], it.version, val)
         IN IF res.err # "" THEN [err |-> res.err, tbl |-> tbl]
            ELSE BatchApply([tbl EXCEPT ![it.key] = res.row], Tail(items), val)

\* SettingsStore.BatchUpdateSettings: one transaction that updates the settings
\* in order, each with its version check; the first error rolls everything back.
BatchUpdateSettings(tbl, items, val) ==
    LET res == BatchApply(tbl, items, val)
    IN IF res.err # "" THEN [err |-> res.err, tbl |-> tbl] ELSE res

\* BatchUpdate (handler): the status for an error of store.BatchUpdateSettings.
BatchErrStatusSwapped(err) ==
    IF err = "version_conflict" THEN 404
    ELSE IF err = "not_found" THEN 409
    ELSE 500

BatchErrStatus(err) ==
    IF err = "version_conflict" THEN 409
    ELSE IF err = "not_found" THEN 404
    ELSE 500

RECURSIVE BatchWrites(_, _, _, _)
BatchWrites(log, tbl, items, by) ==
    IF items = <<>> THEN log
    ELSE LET it == Head(items)
         IN BatchWrites(
                [log EXCEPT ![it.key] = Append(@, Written(by, tbl[it.key].version, it.version))],
                [tbl EXCEPT ![it.key] = [version |-> @.version + 1, value |-> by]],
                Tail(items), by)

\* BatchUpdate (handler): POST /api/settings/batch.  One call is followed, from
\* any table.
BatchUpdate(input, admin) ==
    /\ nBatch' = nBatch + 1
    /\ LET items == TrimmedItems(input)
           by == 0 - (nBatch + 1)
           res == BatchUpdateSettings(settings, items, by)
           call(st, ver) == [items |-> input, admin |-> admin, status |-> st, version |-> ver]
       IN IF ~admin
          THEN /\ lastBatch' = call(403, 0)
               /\ UNCHANGED <<settings, wlog>>
          ELSE IF \E i \in 1..Len(items) : items[i].key = ""
          THEN /\ lastBatch' = call(400, 0)
               /\ UNCHANGED <<settings, wlog>>
          ELSE IF res.err # ""
          THEN /\ lastBatch' = call(BatchErrStatus(res.err), 0)
               /\ UNCHANGED <<settings, wlog>>
          ELSE /\ settings' = res.tbl
               /\ wlog' = BatchWrites(wlog, settings, items, by)
               /\ lastBatch' = call(200, GetGlobalVersion(res.tbl))
    /\ UNCHANGED <<putPc, putReq, putExisting, putResp>>
    /\ UNCHANGED notSettings

PutNext ==
    \/ \E r \in Puts, k \in Keys, v \in ReqVersions, admin \in BOOLEAN : PutRead(r, k, v, admin)
    \/ \E r \in Puts : PutWrite(r)

BatchNext ==
    /\ nBatch = 0
    /\ \E input \in BatchInputs, admin \in BOOLEAN : BatchUpdate(input, admin)

(***************************************************************************)
(* Raw-metrics ingest (Store.InsertMetrics).                                *)
(***************************************************************************)
MaxInt == 2 ^ (CounterBits - 1) - 1

\* Go's signed integer arithmetic wraps around.
Wrap(x) == ((x + 2 ^ (CounterBits - 1)) % (2 ^ CounterBits)) - 2 ^ (CounterBits - 1)

\* Timestamp 0 is the zero time.Time.
Times == 0..MaxTime

Records ==
    [AccountID : {"", "a1"}, NodeID : {"n1"}, Timestamp : Times,
     RequestsTotal : 0..MaxInt, RequestsSuccess : 0..MaxInt,
     RequestsFailed : 0..MaxInt, ResponseTimeCount : {0, 1}]

\* normalizeAccount: the empty account id becomes the canonical one.
normalizeAccount(a) == IF a = "" THEN "default" ELSE a

\* InsertMetrics, lines 22-31: the derivation of the counters left at zero.
DeriveCountersTotalFromSuccess(r) ==
    LET total == IF r.RequestsTotal = 0 THEN r.RequestsSuccess ELSE r.RequestsTotal
        success == IF r.RequestsSuccess = 0 /\ total > 0
                   THEN Wrap(total - r.RequestsFailed) ELSE r.RequestsSuccess
        count == IF r.ResponseTimeCount = 0 /\ total > 0
                 THEN total ELSE r.ResponseTimeCount
    IN [r EXCEPT !.RequestsTotal = total, !.RequestsSuccess = success,
                 !.ResponseTimeCount = count]

DeriveCounters(r) ==
    LET total == IF r.RequestsTotal = 0
                 THEN Wrap(r.RequestsSuccess + r.RequestsFailed) ELSE r.RequestsTotal
        success == IF r.RequestsSuccess = 0 /\ total > 0
                   THEN Wrap(total - r.RequestsFailed) ELSE r.RequestsSuccess
        count == IF r.ResponseTimeCount = 0 /\ total > 0
                 THEN total ELSE r.ResponseTimeCount
    IN [r EXCEPT !.RequestsTotal = total, !.RequestsSuccess = success,
                 !.ResponseTimeCount = count]

\* The row of node_metrics_raw written for a record (the counters that are
\* stored as submitted are left out).
RawRow(r) ==
    [account_id |-> r.AccountID, node_id |-> r.NodeID, ts |-> r.Timestamp,
     requests_total |-> r.RequestsTotal, requests_success |-> r.RequestsSuccess,
     requests_failed |-> r.RequestsFailed, response_time_count |-> r.ResponseTimeCount]

IngestIdle ==
    /\ rec = [AccountID |-> "", NodeID |-> "n1", Timestamp |-> 0, RequestsTotal |-> 0,
              RequestsSuccess |-> 0, RequestsFailed |-> 0, ResponseTimeCount |-> 0]
    /\ rawRows = <<>>

\* Any record with non-negative counters may be submitted.
IngestInit ==
    /\ rec \in Records
    /\ rawRows = <<>>

\* Store.InsertMetrics(ctx, rec); now is time.Now().UTC().
InsertMetrics(now) ==
    /\ Len(rawRows) < MaxRaw
    /\ LET r1 == [rec EXCEPT !.AccountID = normalizeAccount(@)]
           r2 == IF r1.Timestamp = 0 THEN [r1 EXCEPT !.Timestamp = now] ELSE r1
           r3 == DeriveCounters(r2)
       IN rawRows' = Append(rawRows, RawRow(r3))
    /\ UNCHANGED rec
    /\ UNCHANGED notIngest

IngestNext ==
    \/ \E now \in Times \ {0} : InsertMetrics(now)

(***************************************************************************)
(* Time store: QueryMetrics, AggregateMetrics, CleanupMetrics               *)
(* (internal/store/metrics.go).  The SQL statements are modelled by what    *)
(* they select, insert and delete.  A time is a number of units; the        *)
(* counters stay far below the 64-bit range.  Database failures are not     *)
(* modelled.                                                                *)
(***************************************************************************)
DayLen == HourLen * HoursPerDay

MonthLen == DayLen * DaysPerMonth

retentionRaw == 7 * DayLen

retentionHourly == 30 * DayLen

retentionDaily == 365 * DayLen

\* LIMIT applied when only an offset is given.
DefaultLimit == 500

StoreTimes == 1..MaxStoreTime

AggTables == {"hour", "day", "month"}

\* The records the callers submit in the store model.
StoreRecords ==
    [AccountID : {"", "a1"}, NodeID : {"n1"}, Timestamp : 0..MaxStoreTime,
     RequestsTotal : {1}, RequestsSuccess : {0}, RequestsFailed : {0},
     ResponseTimeCount : {0}]

NoCall == [op |-> "none", err |-> FALSE, args |-> <<>>]

StoreIdle ==
    /\ aggTbl = [g \in AggTables |-> {}]
    /\ storeOps = 0
    /\ lastCall = NoCall
    /\ queryRes = <<>>

\* Store.InsertMetrics(ctx, r) for a record r of the caller; clk is time.Now().
InsertRecord(r, clk) ==
    /\ storeOps = 0
    /\ Len(rawRows) < MaxStoreRows
    /\ LET r1 == [r EXCEPT !.AccountID = normalizeAccount(@)]
           r2 == IF r1.Timestamp = 0 THEN [r1 EXCEPT !.Timestamp = clk] ELSE r1
           r3 == DeriveCounters(r2)
       IN rawRows' = Append(rawRows, RawRow(r3))
    /\ UNCHANGED <<aggTbl, storeOps, lastCall, queryRes>>
    /\ UNCHANGED notStore

\* metricsTableInfo: the table of a granularity ("" for an unsupported one).
metricsTableInfo(gr) ==
    IF gr \in {"raw", "hour", "day", "month"} THEN gr ELSE ""

\* aggregationPlan: source table, destination table and bucket length of a
\* target granularity.
aggregationPlan(target) ==
    CASE target = "hour" -> [ok |-> TRUE, src |-> "raw", dst |-> "hour", len |-> HourLen]
      [] target = "day" -> [ok |-> TRUE, src |-> "hour", dst |-> "day", len |-> DayLen]
      [] target = "month" -> [ok |-> TRUE, src |-> "day", dst |-> "month", len |-> MonthLen]
      [] OTHER -> [ok |-> FALSE, src |-> "", dst |-> "", len |-> 1]

\* DATE_FORMAT(ts, '%Y-%m-%d %H:00:00'), DATE(bucket_start),
\* DATE_FORMAT(bucket_start, '%Y-%m-01 00:00:00'): the start of the bucket.
Bucket(t, len) == t - (t % len)

\* The rows of a table with the time column as t.  The raw table has no
\* unique key: id is the position of the row.
TableRows(raw, agg, table) ==
    IF table = "raw"
    THEN {[id |-> i, account_id |-> raw[i].account_id, node_id |-> raw[i].node_id,
           t |-> raw[i].ts, requests_total |-> raw[i].requests_total,
           requests_success |-> raw[i].requests_success,
           requests_failed |-> raw[i].requests_failed,
           response_time_count |-> raw[i].response_time_count] : i \in 1..Len(raw)}
    ELSE {[id |-> 0, account_id |-> r.account_id, node_id |-> r.node_id,
           t |-> r.bucket_start, requests_total |-> r.requests_total,
           requests_success |-> r.requests_success,
           requests_failed |-> r.requests_failed,
           response_time_count |-> r.response_time_count] : r \in agg[table]}

\* WHERE col >= from AND col < to.
InWindowClosed(t, from, to) == from <= t /\ t <= to

InWindow(t, from, to) == from <= t /\ t < to

\* [AND account_id=?]: no filter for the empty account id.
AccountFilter(row, acctID) ==
    acctID = "" \/ row.account_id = normalizeAccount(acctID)

\* SUM(col) over a set of rows.
RECURSIVE SumOf(_, _)
SumOf(S, col) ==
    IF S = {} THEN 0
    ELSE LET x == CHOOSE y \in S : TRUE IN x[col] + SumOf(S \ {x}, col)

RowKey(r) == <<r.account_id, r.node_id, r.bucket_start>>

\* SELECT account_id, node_id, bucket AS bucket_start, SUM(...) ... GROUP BY
\* account_id, node_id, bucket_start.
GroupRows(sel, len) ==
    LET keys == {<<r.account_id, r.node_id, Bucket(r.t, len)>> : r \in sel}
        group(k) == {r \in sel : <<r.account_id, r.node_id, Bucket(r.t, len)>> = k}
    IN {[account_id |-> k[1], node_id |-> k[2], bucket_start |-> k[3],
         requests_total |-> SumOf(group(k), "requests_total"),
         requests_success |-> SumOf(group(k), "requests_success"),
         requests_failed |-> SumOf(group(k), "requests_failed"),
         response_time_count |-> SumOf(group(k), "response_time_count")] : k \in keys}

\* ON DUPLICATE KEY UPDATE col=VALUES(col): the row found is overwritten.
OnDuplicateKeyAdd(old, new) ==
    [new EXCEPT !.requests_total = @ + old.requests_total,
                !.requests_success = @ + old.requests_success,
                !.requests_failed = @ + old.requests_failed,
                !.response_time_count = @ + old.response_time_count]

OnDuplicateKeyKeep(old, new) == old

OnDuplicateKey(old, new) == new

UpsertReplacingTable(dst, new) == new

\* INSERT INTO dst ... ON DUPLICATE KEY UPDATE ...
Upsert(dst, new) ==
    {r \in dst : \A n \in new : RowKey(n) # RowKey(r)}
        \cup {IF \E o \in dst : RowKey(o) = RowKey(n)
              THEN OnDuplicateKey(CHOOSE o \in dst : RowKey(o) = RowKey(n), n)
              ELSE n : n \in new}

\* A row an earlier rollup left in an aggregated table.
Leftover(g) ==
    {[account_id |-> a, node_id |-> "n1", bucket_start |-> b, requests_total |-> 3,
      requests_success |-> 3, requests_failed |-> 0, response_time_count |-> 3] :
        a \in {"default", "a1"},
        b \in {Bucket(t, aggregationPlan(g).len) : t \in StoreTimes}}

\* The store before the calls that are followed: no raw row yet, and each
\* aggregated table empty or holding the rows of earlier rollups.
StoreInit ==
    /\ aggTbl \in [AggTables -> {{}} \cup {Leftover(g) : g \in AggTables}]
    /\ \A g \in AggTables : aggTbl[g] \in {{}, Leftover(g)}
    /\ storeOps = 0
    /\ lastCall = NoCall
    /\ queryRes = <<>>

\* The store before a query: the aggregated tables hold rows of earlier rollups.
QueryInit ==
    /\ aggTbl = [g \in AggTables |-> Leftover(g)]
    /\ storeOps = 0
    /\ lastCall = NoCall
    /\ queryRes = <<>>

\* The window AggregateMetrics uses: to defaults to now, from to 24 hours,
\* 7 days or one month before to.
AggWindow(target, from, to, clk) ==
    LET to1 == IF to = 0 THEN clk ELSE to
        from1 == IF from # 0 THEN from
                 ELSE CASE target = "hour" -> to1 - DayLen
                        [] target = "day" -> to1 - 7 * DayLen
                        [] OTHER -> to1 - MonthLen
    IN [from |-> from1, to |-> to1]

\* The INSERT ... SELECT statement of AggregateMetrics run on the tables agg:
\* the aggregated tables after it.
AggregateRows(agg, acctID, target, from, to, clk) ==
    LET plan == aggregationPlan(target)
        w == AggWindow(target, from, to, clk)
        sel == {r \in TableRows(rawRows, agg, plan.src) :
                   InWindow(r.t, w.from, w.to) /\ AccountFilter(r, acctID)}
    IN IF ~plan.ok
       THEN agg
       ELSE [agg EXCEPT ![plan.dst] = Upsert(@, GroupRows(sel, plan.len))]

\* Store.AggregateMetrics(ctx, acctID, target, from, to).
AggregateMetrics(acctID, target, from, to, clk) ==
    /\ storeOps' = storeOps + 1
    /\ aggTbl' = AggregateRows(aggTbl, acctID, target, from, to, clk)
    /\ lastCall' = [op |-> "aggregate", err |-> ~aggregationPlan(target).ok,
                    args |-> <<acctID, target, from, to, clk>>]
    /\ UNCHANGED <<rawRows, queryRes>>
    /\ UNCHANGED notStore

\* DELETE FROM table WHERE col < cutoff.
ExpiredInclusive(t, cutoff) == t <= cutoff

Expired(t, cutoff) == t < cutoff

\* Store.CleanupMetrics(ctx, acctID, now): the three DELETE statements.
CleanupMetrics(acctID, now, clk) ==
    /\ storeOps' = storeOps + 1
    /\ LET now1 == IF now = 0 THEN clk ELSE now
           account == IF acctID # "" THEN normalizeAccount(acctID) ELSE acctID
           Del(acct, t, keep) ==
               Expired(t, now1 - keep) /\ (account = "" \/ acct = account)
           KeepRaw(r) == ~Del(r.account_id, r.ts, retentionRaw)
       IN /\ rawRows' = SelectSeq(rawRows, KeepRaw)
          /\ aggTbl' = [aggTbl EXCEPT
                 !["hour"] = {r \in @ : ~Del(r.account_id, r.bucket_start, retentionHourly)},
                 !["day"] = {r \in @ : ~Del(r.account_id, r.bucket_start, retentionDaily)}]
    /\ lastCall' = [op |-> "cleanup", err |-> FALSE, args |-> <<acctID, now, clk>>]
    /\ UNCHANGED queryRes
    /\ UNCHANGED notStore

\* MetricsQuery values of the callers.
Queries ==
    [AccountID : {"", "a1"}, NodeID : {"", "n1", "n2"}, From : 0..MaxStoreTime,
     To : 0..(MaxStoreTime + 1), Granularity : {"", "raw", "hour", "day", "month", "week"},
     Limit : {0, 1}, Offset : {0, 1}]

\* The window QueryMetrics uses: to defaults to now, from to 24 hours, 7 days,
\* 30 days or 12 months before to.
QueryWindow(gran, from, to, clk) ==
    LET to1 == IF to = 0 THEN clk ELSE to
        from1 == IF from # 0 THEN from
                 ELSE CASE gran = "raw" -> to1 - DayLen
                        [] gran = "hour" -> to1 - 7 * DayLen
                        [] gran = "day" -> to1 - 30 * DayLen
                        [] OTHER -> to1 - 12 * MonthLen
    IN [from |-> from1, to |-> to1]

\* ORDER BY timeCol ASC: the orders the database may return the rows in.
OrderByTime(S) ==
    {f \in [1..Cardinality(S) -> S] :
        /\ \A i, j \in 1..Cardinality(S) : i # j => f[i] # f[j]
        /\ \A i, j \in 1..Cardinality(S) : i < j => f[i].t <= f[j].t}

\* LIMIT limit OFFSET offset (no LIMIT clause when limit is 0).
Page(ord, limit, offset) ==
    LET rest == SubSeq(ord, offset + 1, Len(ord))
    IN IF limit > 0 /\ limit < Len(rest) THEN SubSeq(rest, 1, limit) ELSE rest

\* The rows the WHERE clause of QueryMetrics selects.
QueryMatch(raw, agg, q, clk) ==
    LET gran == IF q.Granularity = "" THEN "raw" ELSE q.Granularity
        w == QueryWindow(gran, q.From, q.To, clk)
    IN {r \in TableRows(raw, agg, metricsTableInfo(gran)) :
           /\ r.account_id = normalizeAccount(q.AccountID)
           /\ (q.NodeID = "" \/ r.node_id = q.NodeID)
           /\ InWindow(r.t, w.from, w.to)}

\* Store.QueryMetrics(ctx, q).
QueryMetrics(q, clk) ==
    /\ storeOps' = storeOps + 1
    /\ LET gran == IF q.Granularity = "" THEN "raw" ELSE q.Granularity
           limit == IF q.Offset > 0 /\ q.Limit = 0 THEN DefaultLimit ELSE q.Limit
       IN IF metricsTableInfo(gran) = ""
          THEN queryRes' = <<>>
          ELSE \E ord \in OrderByTime(QueryMatch(rawRows, aggTbl, q, clk)) :
                  queryRes' = Page(ord, limit, q.Offset)
    /\ lastCall' = [op |-> "query",
                    err |-> metricsTableInfo(IF q.Granularity = "" THEN "raw"
                                             ELSE q.Granularity) = "",
                    args |-> <<q, clk>>]
    /\ UNCHANGED <<rawRows, aggTbl>>
    /\ UNCHANGED notStore

\* The arguments of CleanupMetrics: the zero time, or a time that puts the
\* cutoff of one of the tables among the stored times.
CleanupTimes ==
    {0} \cup {t + keep : t \in 1..(MaxStoreTime + 1),
                         keep \in {retentionRaw, retentionHourly, retentionDaily}}

\* time.Now() matters only to a call that passes a zero time.
Clock(t) == IF t = 0 THEN StoreTimes ELSE {1}

InsertCall ==
    \E r \in StoreRecords : \E clk \in Clock(r.Timestamp) : InsertRecord(r, clk)

AggregateCall ==
    /\ storeOps = 0
    /\ \E a \in {"", "a1"}, target \in {"hour", "day", "month", "week"} :
          \E from \in 0..MaxStoreTime, to \in 0..(MaxStoreTime + 1) :
              /\ to = 0 \/ from < to
              /\ \E clk \in Clock(to) : AggregateMetrics(a, target, from, to, clk)

\* The caller runs the rollup it has just run once more.
AggregateAgain ==
    /\ storeOps = 1
    /\ lastCall.op = "aggregate"
    /\ AggregateMetrics(lastCall.args[1], lastCall.args[2], lastCall.args[3],
                        lastCall.args[4], lastCall.args[5])

CleanupCall ==
    /\ storeOps = 0
    /\ \E a \in {"", "a1"}, now \in CleanupTimes :
          \E clk \in Clock(now) : CleanupMetrics(a, now, clk)

QueryCall ==
    /\ storeOps = 0
    /\ \E q \in Queries : \E clk \in Clock(q.To) : QueryMetrics(q, clk)

StoreNext ==
    \/ InsertCall
    \/ AggregateCall
    \/ AggregateAgain
    \/ CleanupCall

QueryNext ==
    \/ InsertCall
    \/ QueryCall

(***************************************************************************)
(* The aggregation ticks (aggregateLoop and runAggregation,                 *)
(* internal/proxy/api_health_history.go) on the time store.  The loop fires *)
(* on every multiple of the aggregate interval, one hour by default;        *)
(* runAggregation reads the clock after the fire, so its now is the fire    *)
(* instant or any later instant of the same hour.  The raw rows are written *)
(* before the first tick that is followed.  The ticks start two months      *)
(* after time 0, which keeps every window bound away from the zero time.    *)
(***************************************************************************)
TickEpoch == 2 * MonthLen

\* The hours the raw rows fall in, and the fires that are followed.
TickHours == {TickEpoch, TickEpoch + HourLen}

LastFire == TickEpoch + 3 * HourLen

TickRecords ==
    [AccountID : {"", "a1"}, NodeID : {"n1"},
     Timestamp : TickEpoch..(TickEpoch + 2 * HourLen - 1),
     RequestsTotal : {1}, RequestsSuccess : {0}, RequestsFailed : {0},
     ResponseTimeCount : {0}]

startOfDay(t) == Bucket(t, DayLen)

startOfMonth(t) == Bucket(t, MonthLen)

TickInsert ==
    \E r \in TickRecords : InsertRecord(r, r.Timestamp)

\* runAggregation with time.Now().UTC() = now: raw to hour over the last two
\* hours, hour to day over yesterday, day to month over last month.  An
\* error of one rollup is logged and the next rollup runs.
runAggregation(fire, now) ==
    /\ storeOps' = storeOps + 1
    /\ LET hourly == AggregateRows(aggTbl, "", "hour", now - 2 * HourLen, now, now)
           daily == AggregateRows(hourly, "", "day", startOfDay(now) - DayLen,
                                  startOfDay(now), now)
       IN aggTbl' = AggregateRows(daily, "", "month", startOfMonth(now) - MonthLen,
                                  startOfMonth(now), now)
    /\ lastCall' = [op |-> "tick", err |-> FALSE, args |-> <<fire, now>>]
    /\ UNCHANGED <<rawRows, queryRes>>
    /\ UNCHANGED notStore

\* nextAggregateDelay with the interval of one hour: the first fire is the
\* next multiple of the interval.
FirstFire == TickEpoch + HourLen

\* The timer fires first, then the ticker once per interval.
AggregateTick ==
    /\ Len(rawRows) > 0
    /\ LET fire == IF lastCall.op = "tick" THEN lastCall.args[1] + HourLen ELSE FirstFire
       IN /\ fire <= LastFire
          /\ \E lag \in 0..(HourLen - 1) : runAggregation(fire, fire + lag)

TicksNext ==
    \/ TickInsert
    \/ AggregateTick

(***************************************************************************)
(* Metrics scheduler (MetricsScheduler, internal/proxy/                     *)
(* api_health_history.go): Start, Stop, the aggregation loop and the        *)
(* cleanup loop.  The storage calls of a task are modelled by their         *)
(* outcome only: a call returns nil, returns an error, or panics.  Time is  *)
(* not measured: a timer or ticker may fire whenever its loop waits for it, *)
(* and the 30 s deadline of a task context may pass while a storage call    *)
(* of the task is under way.  Start is called once.                         *)
(***************************************************************************)
Loops == {"aggregate", "cleanup"}

Stoppers == 1..MaxStoppers

\* The storage calls of one tick, in the order of the code.
Steps(l) ==
    IF l = "aggregate" THEN <<"hour", "day", "month">>
    ELSE <<"metrics", "health">>

NewMetricsScheduler ==
    /\ schedStarted = FALSE
    /\ stopCh = "open"
    /\ stopCloses = 0
    /\ stopOnce = FALSE
    /\ wg = 0
    /\ loopPc = [l \in Loops |-> "idle"]
    /\ taskCtx = [l \in Loops |-> "none"]
    /\ panicked = [l \in Loops |-> FALSE]
    /\ ticks = [l \in Loops |-> 0]
    /\ invoked = [l \in Loops |-> <<>>]
    /\ stopPc = [s \in Stoppers |-> "idle"]

Start ==
    /\ ~schedStarted
    /\ schedStarted' = TRUE
    /\ wg' = wg + 2
    /\ loopPc' = [l \in Loops |-> "timer"]
    /\ UNCHANGED <<stopCh, stopCloses, stopOnce, taskCtx, panicked, ticks,
                   invoked, stopPc>>
    /\ UNCHANGED notSched

\* sync.Once: whether Do runs the function it is given.
OnceDoAlways(done) == TRUE

OnceDo(done) == ~done

\* Stop up to the select: the once-guarded close of the stop channel; the
\* caller then waits for the wait group or for the 30 s timer.  The calls
\* are numbered in the order in which they reach the once-guard.
Stop(s) ==
    /\ stopPc[s] = "idle"
    /\ \A r \in Stoppers : r < s => stopPc[r] # "idle"
    /\ IF OnceDo(stopOnce)
       THEN stopCh' = "closed" /\ stopCloses' = stopCloses + 1
       ELSE UNCHANGED <<stopCh, stopCloses>>
    /\ stopOnce' = TRUE
    /\ stopPc' = [stopPc EXCEPT ![s] = "wait"]
    /\ UNCHANGED <<schedStarted, wg, loopPc, taskCtx, panicked, ticks,
                   invoked>>
    /\ UNCHANGED notSched

\* Stop returns because wg.Wait returned.
StopDone(s) ==
    /\ stopPc[s] = "wait"
    /\ wg = 0
    /\ stopPc' = [stopPc EXCEPT ![s] = "done"]
    /\ UNCHANGED <<schedStarted, stopCh, stopCloses, stopOnce, wg, loopPc,
                   taskCtx, panicked, ticks, invoked>>
    /\ UNCHANGED notSched

\* Stop returns because 30 s passed with the wait group above zero.
StopTimeout(s) ==
    /\ stopPc[s] = "wait"
    /\ wg > 0
    /\ stopPc' = [stopPc EXCEPT ![s] = "timeout"]
    /\ UNCHANGED <<schedStarted, stopCh, stopCloses, stopOnce, wg, loopPc,
                   taskCtx, panicked, ticks, invoked>>
    /\ UNCHANGED notSched

\* A loop at one of its two selects takes the stop case and returns; the
\* deferred wg.Done runs.
LoopStop(l) ==
    /\ loopPc[l] \in {"timer", "ticker"}
    /\ stopCh = "closed"
    /\ loopPc' = [loopPc EXCEPT ![l] = "exited"]
    /\ wg' = wg - 1
    /\ UNCHANGED <<schedStarted, stopCh, stopCloses, stopOnce, taskCtx,
                   panicked, ticks, invoked, stopPc>>
    /\ UNCHANGED notSched

\* taskContext: the context a task starts with.
taskContext == "live"

\* A loop at one of its two selects takes the timer or ticker case and
\* starts its task: runAggregation or runCleanup up to the first storage
\* call.
FireTask(l) ==
    /\ loopPc[l] \in {"timer", "ticker"}
    /\ ticks[l] < MaxTicks
    /\ loopPc' = [loopPc EXCEPT ![l] = "task"]
    /\ ticks' = [ticks EXCEPT ![l] = @ + 1]
    /\ taskCtx' = [taskCtx EXCEPT ![l] = taskContext]
    /\ invoked' = [invoked EXCEPT ![l] = <<>>]
    /\ UNCHANGED <<schedStarted, stopCh, stopCloses, stopOnce, wg, panicked,
                   stopPc>>

LoopFire(l) ==
    /\ FireTask(l)
    /\ UNCHANGED notSched

\* The goroutine of taskContext cancels the context once the stop channel
\* is closed.
WatcherLeaves(l) ==
    /\ taskCtx[l] = "live"
    /\ stopCh = "closed"
    /\ UNCHANGED <<schedStarted, stopCh, stopCloses, stopOnce, wg, loopPc,
                   panicked, ticks, invoked, stopPc, taskCtx>>

WatcherCancels(l) ==
    /\ taskCtx[l] = "live"
    /\ stopCh = "closed"
    /\ taskCtx' = [taskCtx EXCEPT ![l] = "cancelled"]
    /\ UNCHANGED <<schedStarted, stopCh, stopCloses, stopOnce, wg, loopPc,
                   panicked, ticks, invoked, stopPc>>

CtxCancel(l) ==
    /\ WatcherCancels(l)
    /\ UNCHANGED notSched

\* The 30 s deadline of the task's context passes; the storage calls made
\* so far have taken the time.
CtxExpire(l) ==
    /\ taskCtx[l] = "live"
    /\ Len(invoked[l]) >= 1
    /\ taskCtx' = [taskCtx EXCEPT ![l] = "expired"]
    /\ UNCHANGED <<schedStarted, stopCh, stopCloses, stopOnce, wg, loopPc,
                   panicked, ticks, invoked, stopPc>>
    /\ UNCHANGED notSched

\* What a storage call can do under a context: under a context that is
\* over it cannot succeed.
Outcomes(c) ==
    IF c = "live" THEN {"ok", "error", "panic"} ELSE {"error", "panic"}

\* The wait group after the deferred calls of a loop that panicked.
AfterPanicNoDone(n) == n

AfterPanic(n) == n - 1

\* The next storage call of the running task, made with the task's
\* context.  An error is logged and the task goes on; a panic unwinds the
\* loop: cancel, recoverPanic and wg.Done run and the loop is over.
StoreCall(l, outcome) ==
    /\ loopPc[l] = "task"
    /\ Len(invoked[l]) < Len(Steps(l))
    /\ outcome \in Outcomes(taskCtx[l])
    /\ invoked' = [invoked EXCEPT ![l] =
                     Append(@, [step |-> Steps(l)[Len(@) + 1],
                                ctx |-> taskCtx[l]])]
    /\ IF outcome = "panic"
       THEN /\ loopPc' = [loopPc EXCEPT ![l] = "exited"]
            /\ panicked' = [panicked EXCEPT ![l] = TRUE]
            /\ taskCtx' = [taskCtx EXCEPT ![l] = "none"]
            /\ wg' = AfterPanic(wg)
       ELSE UNCHANGED <<loopPc, panicked, taskCtx, wg>>
    /\ UNCHANGED <<schedStarted, stopCh, stopCloses, stopOnce, ticks, stopPc>>
    /\ UNCHANGED notSched

\* The task returns after its last storage call: the deferred cancel runs
\* and the loop waits for its ticker.
TaskReturn(l) ==
    /\ loopPc[l] = "task"
    /\ Len(invoked[l]) = Len(Steps(l))
    /\ loopPc' = [loopPc EXCEPT ![l] = "ticker"]
    /\ taskCtx' = [taskCtx EXCEPT ![l] = "none"]
    /\ invoked' = [invoked EXCEPT ![l] = <<>>]
    /\ UNCHANGED <<schedStarted, stopCh, stopCloses, stopOnce, wg, panicked,
                   ticks, stopPc>>
    /\ UNCHANGED notSched

Loop(l) ==
    \/ LoopStop(l)
    \/ LoopFire(l)
    \/ \E outcome \in {"ok", "error", "panic"} : StoreCall(l, outcome)
    \/ TaskReturn(l)

aggregateLoop == Loop("aggregate")

cleanupLoop == Loop("cleanup")

SchedNext ==
    \/ Start
    \/ \E s \in Stoppers : Stop(s) \/ StopDone(s) \/ StopTimeout(s)
    \/ aggregateLoop
    \/ cleanupLoop
    \/ \E l \in Loops : CtxCancel(l) \/ CtxExpire(l)

\* What a started loop does without waiting for time to pass.
LoopProgress(l) ==
    \/ LoopStop(l)
    \/ \E outcome \in {"ok", "error", "panic"} : StoreCall(l, outcome)
    \/ TaskReturn(l)

\* Scheduling: a goroutine that can run does run.  For a loop this means
\* that a storage call returns (its context ends after 30 s at the latest)
\* and that a select whose stop case is ready takes it after finitely many
\* rounds (Go picks among the ready cases at random); for Stop, that the
\* select returns once the wait group is at zero.
SchedFair ==
    /\ \A l \in Loops : WF_vars(LoopProgress(l))
    /\ WF_vars(\E s \in Stoppers : StopDone(s))

(***************************************************************************)
(* Settings cache (SettingsCache, proxy).  The store behind the cache is    *)
(* the settings table; its writes always succeed, its ListSettings may      *)
(* fail.  A value is a number and Nil stands for "no value": a key the      *)
(* cache map does not hold, or the nil a callback gets for a removed key.   *)
(* A section under c.mu is one step; the callbacks of one Set, UpdateLocal  *)
(* or Refresh are invoked in one step, and the order of the invocations is  *)
(* not kept.  One Set or UpdateLocal and one Refresh are under way at a     *)
(* time.                                                                    *)
(***************************************************************************)
Nil == 0 - 1

CacheValues == {1, 2}

Callbacks == 1..nCallbacks

NoWrite == [op |-> "none", key |-> "", value |-> Nil, version |-> 0, ev |-> 0]

\* Before NewSettingsCache.
CacheIdle ==
    /\ cachePc = "new"
    /\ cacheData = [k \in Keys |-> Nil]
    /\ cacheVersion = 0
    /\ nCallbacks = 0
    /\ calls = EmptyBag
    /\ wPc = "idle"
    /\ wArgs = NoWrite
    /\ refPc = "idle"
    /\ refSnap = [k \in Keys |-> NoRow]
    /\ refEv = [k \in Keys |-> 0]
    /\ refOld = [k \in Keys |-> Nil]
    /\ refChanged = {}
    /\ refRemoved = {}
    /\ nRefresh = 0
    /\ nEvents = 0
    /\ rowEvent = [k \in Keys |-> 0]
    /\ reads = <<>>

\* The table the cache is constructed over: every key is absent or holds a
\* row created earlier.
CacheInit ==
    /\ settings \in [Keys -> {NoRow, [version |-> 1, value |-> 1]}]
    /\ wlog = [k \in Keys |-> IF settings[k] = NoRow THEN <<>> ELSE <<SeedWrite>>]
    /\ putPc = [r \in Puts |-> "new"]
    /\ putReq = [r \in Puts |-> NoPut]
    /\ putExisting = [r \in Puts |-> NoRow]
    /\ putResp = [r \in Puts |-> NoResp]
    /\ nBatch = 0
    /\ lastBatch = [items |-> <<>>, admin |-> FALSE, status |-> 0, version |-> 0]

\* SettingsStore.ListSettings("system", "", ""): the rows of the table.
ListSettings(tbl) == tbl

\* reload after the store read: whether it goes on.
reloadProceedsAlways(err) == TRUE

reloadProceeds(err) == ~err

\* reload: newData and maxVer of the rows read (none after a failed read).
NewData(rows) ==
    [k \in Keys |-> IF rows[k].version > 0 THEN rows[k].value ELSE Nil]

RECURSIVE MaxVer(_, _)
MaxVer(rows, S) ==
    IF S = {} THEN 0
    ELSE LET k == CHOOSE x \in S : TRUE
             rest == MaxVer(rows, S \ {k})
         IN IF rows[k].version > rest THEN rows[k].version ELSE rest

maxInt64(a, b) == IF a > b THEN a ELSE b

\* reflect.DeepEqual on two values.
DeepEqualNever(a, b) == FALSE

DeepEqual(a, b) == a = b

\* reload(true) under the lock: the keys to notify with their new value.
Changed(old, new) ==
    {k \in Keys : new[k] # Nil /\ (old[k] = Nil \/ ~DeepEqual(old[k], new[k]))}

\* reload(true) under the lock: the keys to notify as removed.
Removed(old, new) == {k \in Keys : old[k] # Nil /\ new[k] = Nil}

\* notifyChange(key, value): every registered callback is invoked once.
notifyChange(bag, key, value, ev) ==
    bag (+) SetToBag({[cb |-> f, key |-> key, value |-> value, ev |-> ev] :
                        f \in Callbacks})

RECURSIVE NotifyAll(_, _)
NotifyAll(bag, S) ==
    IF S = {} THEN bag
    ELSE LET n == CHOOSE x \in S : TRUE
         IN NotifyAll(notifyChange(bag, n.key, n.value, n.ev), S \ {n})

\* NewSettingsCache: the map is made empty and loadAll runs reload(false).
NewSettingsCache(err) ==
    /\ cachePc = "new"
    /\ cachePc' = "ready"
    /\ reads' = Append(reads, IF err THEN "err" ELSE "ok")
    /\ IF reloadProceeds(err)
       THEN LET rows == IF err THEN [k \in Keys |-> NoRow]
                        ELSE ListSettings(settings)
            IN /\ cacheData' = NewData(rows)
               /\ cacheVersion' = IF MaxVer(rows, Keys) > 0
                                  THEN MaxVer(rows, Keys) ELSE cacheVersion
       ELSE UNCHANGED <<cacheData, cacheVersion>>
    /\ UNCHANGED <<nCallbacks, calls, wPc, wArgs, refPc, refSnap, refEv,
                   refOld, refChanged, refRemoved, nRefresh, nEvents,
                   rowEvent>>
    /\ UNCHANGED notCache

OnChange ==
    /\ cachePc = "ready"
    /\ nCallbacks < MaxCallbacks
    /\ nCallbacks' = nCallbacks + 1
    /\ UNCHANGED <<cachePc, cacheData, cacheVersion, calls, wPc, wArgs, refPc,
                   refSnap, refEv, refOld, refChanged, refRemoved, nRefresh,
                   nEvents, rowEvent, reads>>
    /\ UNCHANGED notCache

\* Set up to the lock (UpsertSetting), or the write of the component that
\* calls UpdateLocal afterwards: one mutation of the table.
StoreWrite(op, k, v) ==
    /\ cachePc = "ready"
    /\ wPc = "idle"
    /\ nEvents < MaxEvents
    /\ nEvents' = nEvents + 1
    /\ rowEvent' = [rowEvent EXCEPT ![k] = nEvents + 1]
    /\ settings' = [settings EXCEPT ![k] = UpsertSetting(@, v)]
    /\ wArgs' = [op |-> op, key |-> k, value |-> v,
                 version |-> UpsertSetting(settings[k], v).version,
                 ev |-> nEvents + 1]
    /\ wPc' = "stored"
    /\ UNCHANGED <<cachePc, cacheData, cacheVersion, nCallbacks, calls, refPc,
                   refSnap, refEv, refOld, refChanged, refRemoved, nRefresh,
                   reads>>
    /\ UNCHANGED <<hubVars, putPc, putReq, putExisting, putResp, nBatch,
                   lastBatch, wlog, ingestVars, storeVars, schedVars, edgeVars, watchVars, lockVars>>

\* Set and UpdateLocal under the lock.
WriteLocal ==
    /\ wPc = "stored"
    /\ cacheData' = [cacheData EXCEPT ![wArgs.key] = wArgs.value]
    /\ cacheVersion' = IF wArgs.version > 0
                       THEN maxInt64(cacheVersion, wArgs.version)
                       ELSE IF wArgs.op = "Set" THEN cacheVersion + 1
                            ELSE cacheVersion
    /\ wPc' = "notify"
    /\ UNCHANGED <<cachePc, nCallbacks, calls, wArgs, refPc, refSnap, refEv,
                   refOld, refChanged, refRemoved, nRefresh, nEvents, rowEvent,
                   reads>>
    /\ UNCHANGED notCache

\* Set and UpdateLocal after the lock: notifyChange(key, value).
WriteNotify ==
    /\ wPc = "notify"
    /\ calls' = notifyChange(calls, wArgs.key, wArgs.value, wArgs.ev)
    /\ wPc' = "idle"
    /\ wArgs' = NoWrite
    /\ UNCHANGED <<cachePc, cacheData, cacheVersion, nCallbacks, refPc,
                   refSnap, refEv, refOld, refChanged, refRemoved, nRefresh,
                   nEvents, rowEvent, reads>>
    /\ UNCHANGED notCache

\* A row is deleted from the table by another component (DELETE
\* /api/settings/{key}): one mutation of the table.
DeleteRow(k) ==
    /\ cachePc = "ready"
    /\ settings[k].version > 0
    /\ nEvents < MaxEvents
    /\ nEvents' = nEvents + 1
    /\ rowEvent' = [rowEvent EXCEPT ![k] = nEvents + 1]
    /\ settings' = [settings EXCEPT ![k] = NoRow]
    /\ UNCHANGED cacheVars2
    /\ UNCHANGED <<hubVars, putPc, putReq, putExisting, putResp, nBatch,
                   lastBatch, wlog, ingestVars, storeVars, schedVars, edgeVars, watchVars, lockVars>>

\* Refresh up to the lock: the store read.
RefreshRead(err) ==
    /\ cachePc = "ready"
    /\ refPc = "idle"
    /\ nRefresh < MaxRefreshes
    /\ nRefresh' = nRefresh + 1
    /\ reads' = Append(reads, IF err THEN "err" ELSE "ok")
    /\ IF reloadProceeds(err)
       THEN /\ refSnap' = IF err THEN [k \in Keys |-> NoRow]
                          ELSE ListSettings(settings)
            /\ refEv' = rowEvent
            /\ refPc' = "read"
       ELSE UNCHANGED <<refSnap, refEv, refPc>>
    /\ UNCHANGED <<cachePc, cacheData, cacheVersion, nCallbacks, calls, wPc,
                   wArgs, refOld, refChanged, refRemoved, nEvents, rowEvent>>
    /\ UNCHANGED notCache

\* Refresh under the lock: the diff against the map, then the map and the
\* version cursor are replaced.
RefreshLock ==
    /\ refPc = "read"
    /\ LET new == NewData(refSnap) IN
       /\ refChanged' = {[key |-> k, value |-> new[k], ev |-> refEv[k]] :
                           k \in Changed(cacheData, new)}
       /\ refRemoved' = {[key |-> k, value |-> Nil, ev |-> refEv[k]] :
                           k \in Removed(cacheData, new)}
       /\ cacheData' = new
    /\ refOld' = cacheData
    /\ cacheVersion' = IF MaxVer(refSnap, Keys) > 0
                       THEN MaxVer(refSnap, Keys) ELSE cacheVersion
    /\ refPc' = "notify"
    /\ UNCHANGED <<cachePc, nCallbacks, calls, wPc, wArgs, refSnap, refEv,
                   nRefresh, nEvents, rowEvent, reads>>
    /\ UNCHANGED notCache

\* Refresh after the lock: notifyChange for the changed keys, then for the
\* removed ones.
RefreshNotify ==
    /\ refPc = "notify"
    /\ calls' = NotifyAll(NotifyAll(calls, refChanged), refRemoved)
    /\ refPc' = "idle"
    /\ refChanged' = {}
    /\ refRemoved' = {}
    /\ UNCHANGED <<cachePc, cacheData, cacheVersion, nCallbacks, wPc, wArgs,
                   refSnap, refEv, refOld, nRefresh, nEvents, rowEvent,
                   reads>>
    /\ UNCHANGED notCache

\* Get and GetInt.
Get(data, key) == [v |-> data[key], ok |-> data[key] # Nil]

GetInt(data, key, defaultVal) ==
    IF Get(data, key).ok THEN Get(data, key).v ELSE defaultVal

\* No call of the cache is under way.
CacheQuiet == wPc = "idle" /\ refPc = "idle"

\* The calls that start an operation of the cache or mutate the table.
CacheStart ==
    \/ OnChange
    \/ \E op \in {"Set", "UpdateLocal"}, k \in Keys, v \in CacheValues :
          StoreWrite(op, k, v)
    \/ \E k \in Keys : DeleteRow(k)
    \/ \E err \in BOOLEAN : RefreshRead(err)

\* The steps that carry an operation on.
CacheStep ==
    \/ WriteLocal
    \/ WriteNotify
    \/ RefreshLock
    \/ RefreshNotify

\* Calls from any number of goroutines.
CacheNext ==
    \/ \E err \in BOOLEAN : NewSettingsCache(err)
    \/ CacheStart
    \/ CacheStep

\* Calls one after the other.
CacheSeqNext ==
    \/ \E err \in BOOLEAN : NewSettingsCache(err)
    \/ CacheQuiet /\ CacheStart
    \/ CacheStep

\* The table a cache with a history is constructed over: rows created and
\* rows rewritten earlier.
CacheSetInit ==
    /\ settings \in [Keys -> {NoRow, [version |-> 1, value |-> 1],
                               [version |-> 2, value |-> 2]}]
    /\ wlog = [k \in Keys |-> IF settings[k] = NoRow THEN <<>> ELSE <<SeedWrite>>]
    /\ putPc = [r \in Puts |-> "new"]
    /\ putReq = [r \in Puts |-> NoPut]
    /\ putExisting = [r \in Puts |-> NoRow]
    /\ putResp = [r \in Puts |-> NoResp]
    /\ nBatch = 0
    /\ lastBatch = [items |-> <<>>, admin |-> FALSE, status |-> 0, version |-> 0]

\* Set after c.store.UpsertSetting: whether it goes on.
setProceedsAlways(err) == TRUE

setProceeds(err) == ~err

\* Set up to the lock.  A failing UpsertSetting leaves the table and the
\* Version of the setting passed to it as they were, and wPc becomes
\* "failed": Set is about to return the error.
SetCall(k, v, err) ==
    IF ~err
    THEN StoreWrite("Set", k, v)
    ELSE /\ cachePc = "ready"
         /\ wPc = "idle"
         /\ wArgs' = [op |-> "Set", key |-> k, value |-> v, version |-> 0, ev |-> 0]
         /\ wPc' = IF setProceeds(err) THEN "stored" ELSE "failed"
         /\ UNCHANGED <<cachePc, cacheData, cacheVersion, nCallbacks, calls, refPc,
                        refSnap, refEv, refOld, refChanged, refRemoved, nRefresh,
                        nEvents, rowEvent, reads>>
         /\ UNCHANGED notCache

\* Set returns the error of the store.
SetReturnsErr ==
    /\ wPc = "failed"
    /\ wPc' = "idle"
    /\ wArgs' = NoWrite
    /\ UNCHANGED <<cachePc, cacheData, cacheVersion, nCallbacks, calls, refPc,
                   refSnap, refEv, refOld, refChanged, refRemoved, nRefresh,
                   nEvents, rowEvent, reads>>
    /\ UNCHANGED notCache

\* Set calls one after the other, over a store that may fail.
CacheSetNext ==
    \/ \E err \in BOOLEAN : NewSettingsCache(err)
    \/ CacheQuiet /\ OnChange
    \/ \E k \in Keys, v \in CacheValues, err \in BOOLEAN : SetCall(k, v, err)
    \/ WriteLocal
    \/ WriteNotify
    \/ SetReturnsErr

(***************************************************************************)
(* The mutex of the settings cache.  Every method of SettingsCache is the   *)
(* sequence of its store call, its c.mu operations and its callback         *)
(* invocations; what it reads and writes under the lock is left to the      *)
(* cache model above.  c.mu is a sync.RWMutex: Lock waits for the writer    *)
(* and the readers to leave, RLock waits while a writer holds the mutex or  *)
(* is blocked in Lock, and neither is re-entrant.  One callback is          *)
(* registered; invoked by a method a goroutine called, it calls one method  *)
(* of the same cache, and invoked by that method it returns at once.  A     *)
(* Refresh notifies at most one key.                                        *)
(***************************************************************************)
Goroutines == {"g1", "g2"}

CacheOps == {"Get", "Set", "UpdateLocal", "OnChange", "Refresh"}

LockIdle ==
    /\ muWriter = "none"
    /\ muReaders = [g \in Goroutines |-> 0]
    /\ muWaiting = {}
    /\ stack = [g \in Goroutines |-> <<>>]
    /\ finished = {}
    /\ heldCalls = 0

\* notifyChange: the callbacks are copied under RLock and invoked after
\* RUnlock.
notifyProgram == <<"RLock", "RUnlock", "call">>

\* The methods with the callbacks invoked before c.mu.Unlock().
ProgramNotifyLocked(op) ==
    CASE op = "Get" -> <<"RLock", "RUnlock">>
      [] op = "Set" -> <<"UpsertSetting", "Lock">> \o notifyProgram \o <<"Unlock">>
      [] op = "UpdateLocal" -> <<"Lock">> \o notifyProgram \o <<"Unlock">>
      [] op = "OnChange" -> <<"Lock", "Unlock">>
      [] OTHER -> <<"ListSettings", "Lock">> \o notifyProgram \o <<"Unlock">>

\* Get, Set, UpdateLocal, OnChange and reload(true).
Program(op) ==
    CASE op = "Get" -> <<"RLock", "RUnlock">>
      [] op = "Set" -> <<"UpsertSetting", "Lock", "Unlock">> \o notifyProgram
      [] op = "UpdateLocal" -> <<"Lock", "Unlock">> \o notifyProgram
      [] op = "OnChange" -> <<"Lock", "Unlock">>
      [] OTHER -> <<"ListSettings", "Lock", "Unlock">> \o notifyProgram

Top(g) == stack[g][Len(stack[g])]

\* The instruction goroutine g is at ("return" at the end of a method, "idle"
\* outside the cache).
Instr(g) ==
    IF stack[g] = <<>> THEN "idle"
    ELSE IF Top(g).pc > Len(Program(Top(g).op)) THEN "return"
    ELSE Program(Top(g).op)[Top(g).pc]

Holds(g) == muWriter = g \/ muReaders[g] > 0

\* The stack of g with its innermost method moved to instruction pc.
Goto(g, pc) == [stack[g] EXCEPT ![Len(stack[g])].pc = pc]

Advance(g) == Goto(g, Top(g).pc + 1)

Leave(g) == Goto(g, Len(Program(Top(g).op)) + 1)

\* A goroutine calls a method of the cache.
CacheCall(g, op) ==
    /\ stack[g] = <<>>
    /\ g \notin finished
    /\ stack' = [stack EXCEPT ![g] = <<[op |-> op, pc |-> 1]>>]
    /\ UNCHANGED <<muWriter, muReaders, muWaiting, finished, heldCalls>>
    /\ UNCHANGED notLock

\* c.store.UpsertSetting or c.store.ListSettings: on an error the method
\* returns.
StoreStep(g, err) ==
    /\ Instr(g) \in {"UpsertSetting", "ListSettings"}
    /\ stack' = [stack EXCEPT ![g] = IF err THEN Leave(g) ELSE Advance(g)]
    /\ UNCHANGED <<muWriter, muReaders, muWaiting, finished, heldCalls>>
    /\ UNCHANGED notLock

\* c.mu.Lock(): the goroutine announces itself, then waits its turn.
LockWait(g) ==
    /\ Instr(g) = "Lock"
    /\ g \notin muWaiting
    /\ muWaiting' = muWaiting \cup {g}
    /\ UNCHANGED <<muWriter, muReaders, stack, finished, heldCalls>>
    /\ UNCHANGED notLock

LockAcquire(g) ==
    /\ Instr(g) = "Lock"
    /\ g \in muWaiting
    /\ muWriter = "none"
    /\ \A h \in Goroutines : muReaders[h] = 0
    /\ muWriter' = g
    /\ muWaiting' = muWaiting \ {g}
    /\ stack' = [stack EXCEPT ![g] = Advance(g)]
    /\ UNCHANGED <<muReaders, finished, heldCalls>>
    /\ UNCHANGED notLock

\* c.mu.Unlock().  A reload that found nothing changed or removed returns
\* without a notification.
Unlock(g, quiet) ==
    /\ Instr(g) = "Unlock"
    /\ muWriter' = "none"
    /\ stack' = [stack EXCEPT ![g] = IF quiet /\ Top(g).op = "Refresh"
                                     THEN Leave(g) ELSE Advance(g)]
    /\ UNCHANGED <<muReaders, muWaiting, finished, heldCalls>>
    /\ UNCHANGED notLock

\* c.mu.RLock().
RLock(g) ==
    /\ Instr(g) = "RLock"
    /\ muWriter = "none"
    /\ muWaiting = {}
    /\ muReaders' = [muReaders EXCEPT ![g] = @ + 1]
    /\ stack' = [stack EXCEPT ![g] = Advance(g)]
    /\ UNCHANGED <<muWriter, muWaiting, finished, heldCalls>>
    /\ UNCHANGED notLock

\* c.mu.RUnlock().
RUnlock(g) ==
    /\ Instr(g) = "RUnlock"
    /\ muReaders' = [muReaders EXCEPT ![g] = @ - 1]
    /\ stack' = [stack EXCEPT ![g] = Advance(g)]
    /\ UNCHANGED <<muWriter, muWaiting, finished, heldCalls>>
    /\ UNCHANGED notLock

\* fn(key, value): the callback is invoked.  Called from a method the
\* goroutine entered itself it calls method op of the cache; called from
\* that method it returns at once.
Invoke(g, op) ==
    /\ Instr(g) = "call"
    /\ heldCalls' = heldCalls + (IF Holds(g) THEN 1 ELSE 0)
    /\ stack' = [stack EXCEPT ![g] =
                    IF Len(stack[g]) = 1
                    THEN Append(Advance(g), [op |-> op, pc |-> 1])
                    ELSE Advance(g)]
    /\ UNCHANGED <<muWriter, muReaders, muWaiting, finished>>
    /\ UNCHANGED notLock

\* A method returns: to the callback that called it, or to the goroutine.
Return(g) ==
    /\ Instr(g) = "return"
    /\ stack' = [stack EXCEPT ![g] = SubSeq(@, 1, Len(@) - 1)]
    /\ finished' = IF Len(stack[g]) = 1 THEN finished \cup {g} ELSE finished
    /\ UNCHANGED <<muWriter, muReaders, muWaiting, heldCalls>>
    /\ UNCHANGED notLock

\* The steps of a goroutine inside the cache.
Run(g) ==
    \/ \E err \in BOOLEAN : StoreStep(g, err)
    \/ LockWait(g)
    \/ LockAcquire(g)
    \/ \E quiet \in BOOLEAN : Unlock(g, quiet)
    \/ RLock(g)
    \/ RUnlock(g)
    \/ \E op \in CacheOps : Invoke(g, op)
    \/ Return(g)

LockNext ==
    \E g \in Goroutines :
        \/ \E op \in CacheOps : CacheCall(g, op)
        \/ Run(g)

\* A goroutine that can run is scheduled.
LockFair == \A g \in Goroutines : WF_vars(Run(g))

(***************************************************************************)
(* GET /api/nodes/{node_id}/health-history (Server.handleGetHealthHistory).  *)
(* The session, the node registry and the store are inputs of the request:  *)
(* the caller the session middleware resolved ("none": no session), whether *)
(* the session is an admin's, the account that owns the node ("unknown":    *)
(* no such node), and whether the store calls fail.  A time is a number of  *)
(* units, 0 being the zero time.                                            *)
(***************************************************************************)
NoEdgeReq == [handler |-> "none"]

NoEdgeResp == [status |-> 0, body |-> <<>>]

EdgeIdle ==
    /\ edgeReq = NoEdgeReq
    /\ edgeResp = NoEdgeResp
    /\ edgeStore = <<>>

healthDefaultLimit == 300

healthMaxLimit == 2000

\* A query parameter holding a time: absent, not RFC3339, or a time.
TimeParams ==
    {[kind |-> "absent", t |-> 0], [kind |-> "invalid", t |-> 0]}
       \cup {[kind |-> "time", t |-> x] : x \in 0..MaxStoreTime}

\* A query parameter holding a number: absent, not a number, or a number.
IntParams ==
    {[kind |-> "absent", n |-> 0], [kind |-> "text", n |-> 0]}
       \cup {[kind |-> "num", n |-> x] :
               x \in {0 - 1, 0, 1, healthMaxLimit, healthMaxLimit + 1}}

HistoryRequests ==
    [handler : {"health-history"},
     method : {"GET", "POST"},
     storeEnabled : BOOLEAN,
     pathOk : BOOLEAN,
     caller : {"none"} \cup Accounts,
     admin : BOOLEAN,
     nodeAccount : {"unknown"} \cup Accounts,
     from : TimeParams,
     to : TimeParams,
     limit : IntParams,
     offset : IntParams,
     storeErr : BOOLEAN]

\* parseTime: the zero time for an absent parameter.
parseTime(p) ==
    [err |-> p.kind = "invalid", t |-> IF p.kind = "time" THEN p.t ELSE 0]

\* strconv.Atoi on a parameter that is present.
Atoi(p) == [err |-> p.kind = "text", n |-> p.n]

\* The access rule of the handler: who may read a node of this account.
MayReadAnyone(isAdm, nodeAccount, caller) == TRUE

MayRead(isAdm, nodeAccount, caller) == isAdm \/ nodeAccount = caller

\* from.After(to)
After(a, b) == a > b

\* The limit and the offset the handler passes on.
HistoryLimitUnclamped(p) ==
    IF p.kind # "absent" /\ ~Atoi(p).err /\ Atoi(p).n > 0
    THEN Atoi(p).n ELSE healthDefaultLimit

HistoryLimit(p) ==
    LET n == IF p.kind # "absent" /\ ~Atoi(p).err /\ Atoi(p).n > 0
             THEN Atoi(p).n ELSE healthDefaultLimit
    IN IF n > healthMaxLimit THEN healthMaxLimit ELSE n

HistoryOffset(p) ==
    IF p.kind # "absent" /\ ~Atoi(p).err /\ Atoi(p).n >= 0 THEN Atoi(p).n
    ELSE 0

HistoryResult(st, q) == [status |-> st, store |-> q]

\* handleGetHealthHistory: the status written and the store calls made.
handleGetHealthHistory(r, now) ==
    IF r.method # "GET" THEN HistoryResult(405, <<>>)
    ELSE IF ~r.storeEnabled THEN HistoryResult(500, <<>>)
    ELSE IF ~r.pathOk THEN HistoryResult(404, <<>>)
    ELSE IF r.caller = "none" THEN HistoryResult(401, <<>>)
    ELSE IF r.nodeAccount = "unknown" THEN HistoryResult(404, <<>>)
    ELSE IF ~MayRead(r.admin, r.nodeAccount, r.caller)
         THEN HistoryResult(403, <<>>)
    ELSE IF parseTime(r.to).err \/ parseTime(r.from).err
         THEN HistoryResult(400, <<>>)
    ELSE
      LET to == IF parseTime(r.to).t = 0 THEN now ELSE parseTime(r.to).t
          from == IF parseTime(r.from).t = 0 THEN to - DayLen
                  ELSE parseTime(r.from).t
          params == [AccountID |-> r.nodeAccount, From |-> from, To |-> to,
                     Limit |-> HistoryLimit(r.limit),
                     Offset |-> HistoryOffset(r.offset)]
          query == [op |-> "QueryHealthChecks", params |-> params]
          count == [op |-> "CountHealthChecks", params |-> params]
      IN IF After(from, to) THEN HistoryResult(400, <<>>)
         ELSE IF r.storeErr THEN HistoryResult(500, <<query>>)
         ELSE HistoryResult(200, <<query, count>>)

HistoryCall(r, now) ==
    /\ edgeResp' = [status |-> handleGetHealthHistory(r, now).status,
                    body |-> <<>>]
    /\ edgeStore' = handleGetHealthHistory(r, now).store
    /\ edgeReq' = r
    /\ UNCHANGED notEdge

HistoryNext ==
    /\ edgeResp.status = 0
    /\ \E r \in HistoryRequests :
          \E now \in Clock(parseTime(r.to).t) : HistoryCall(r, now)

(***************************************************************************)
(* Settings reads and deletes (SettingsHandler.ListSettings, HandleSetting, *)
(* GetSetting, DeleteSetting).                                              *)
(***************************************************************************)
\* The keys whose row has is_secret = true.
SecretKeys == {"k1"}

\* The mask "******" a secret value is replaced by; no stored value equals it.
SecretMask == 0 - 6

\* storeErr: the store call of the request fails (only a store that is
\* enabled can fail).
SettingsRequests ==
    {r \in [handler : {"list", "get", "delete"},
            admin : BOOLEAN,
            storeEnabled : BOOLEAN,
            key : Keys \cup {""},
            storeErr : BOOLEAN] : r.storeErr => r.storeEnabled}

\* The admin check every settings endpoint starts with.
ForbiddenNever(admin) == FALSE

Forbidden(admin) == ~admin

\* The masking of a row read from the store; the store keeps its own copy.
RedactNothing(k, row) == row

Redact(k, row) ==
    IF k \in SecretKeys THEN [row EXCEPT !.value = SecretMask] ELSE row

StoredKeys(tbl) == {k \in Keys : tbl[k] # NoRow}

SettingsReply(st, data, ver) == [status |-> st, body |-> [data |-> data, version |-> ver]]

SettingsStoreCall(op, k) == [op |-> op, params |-> [key |-> k]]

\* ListSettings: the reply and the store calls made for request r on table tbl.
ListSettingsReply(r, tbl) ==
    IF Forbidden(r.admin)
    THEN [resp |-> SettingsReply(403, <<>>, 0), store |-> <<>>]
    ELSE IF ~r.storeEnabled
    THEN [resp |-> SettingsReply(500, <<>>, 0), store |-> <<>>]
    ELSE IF r.storeErr
    THEN [resp |-> SettingsReply(500, <<>>, 0),
          store |-> <<SettingsStoreCall("ListSettings", "")>>]
    ELSE [resp |-> SettingsReply(200,
                       [k \in StoredKeys(tbl) |-> Redact(k, tbl[k])],
                       GetGlobalVersion(tbl)),
          store |-> <<SettingsStoreCall("ListSettings", ""),
                      SettingsStoreCall("GetGlobalVersion", "")>>]

\* HandleSetting with GET, then GetSetting.
GetSettingReply(r, tbl) ==
    IF r.key = ""
    THEN [resp |-> SettingsReply(400, <<>>, 0), store |-> <<>>]
    ELSE IF Forbidden(r.admin)
    THEN [resp |-> SettingsReply(403, <<>>, 0), store |-> <<>>]
    ELSE IF ~r.storeEnabled
    THEN [resp |-> SettingsReply(500, <<>>, 0), store |-> <<>>]
    ELSE IF r.storeErr
    THEN [resp |-> SettingsReply(500, <<>>, 0),
          store |-> <<SettingsStoreCall("GetSetting", r.key)>>]
    ELSE IF tbl[r.key] = NoRow
    THEN [resp |-> SettingsReply(404, <<>>, 0),
          store |-> <<SettingsStoreCall("GetSetting", r.key)>>]
    ELSE [resp |-> SettingsReply(200,
                       [k \in {r.key} |-> Redact(k, tbl[k])],
                       GetGlobalVersion(tbl)),
          store |-> <<SettingsStoreCall("GetSetting", r.key),
                      SettingsStoreCall("GetGlobalVersion", "")>>]

\* HandleSetting with DELETE, then DeleteSetting.
DeleteSettingReply(r, tbl) ==
    IF r.key = ""
    THEN [resp |-> SettingsReply(400, <<>>, 0), store |-> <<>>]
    ELSE IF Forbidden(r.admin)
    THEN [resp |-> SettingsReply(403, <<>>, 0), store |-> <<>>]
    ELSE IF ~r.storeEnabled
    THEN [resp |-> SettingsReply(500, <<>>, 0), store |-> <<>>]
    ELSE IF r.storeErr
    THEN [resp |-> SettingsReply(500, <<>>, 0),
          store |-> <<SettingsStoreCall("DeleteSetting", r.key)>>]
    ELSE IF tbl[r.key] = NoRow
    THEN [resp |-> SettingsReply(404, <<>>, 0),
          store |-> <<SettingsStoreCall("DeleteSetting", r.key)>>]
    ELSE [resp |-> SettingsReply(200, <<>>, 0),
          store |-> <<SettingsStoreCall("DeleteSetting", r.key)>>]

ListSettingsCall(r) ==
    /\ r.handler = "list"
    /\ r.key = ""
    /\ edgeReq' = r
    /\ edgeResp' = ListSettingsReply(r, settings).resp
    /\ edgeStore' = ListSettingsReply(r, settings).store
    /\ UNCHANGED notEdge

GetSettingCall(r) ==
    /\ r.handler = "get"
    /\ edgeReq' = r
    /\ edgeResp' = GetSettingReply(r, settings).resp
    /\ edgeStore' = GetSettingReply(r, settings).store
    /\ UNCHANGED notEdge

\* The store deletes the row when the call reaches it and does not fail.
DeleteSettingCall(r) ==
    /\ r.handler = "delete"
    /\ edgeReq' = r
    /\ edgeResp' = DeleteSettingReply(r, settings).resp
    /\ edgeStore' = DeleteSettingReply(r, settings).store
    /\ settings' = IF DeleteSettingReply(r, settings).resp.status = 200
                   THEN [settings EXCEPT ![r.key] = NoRow]
                   ELSE settings
    /\ UNCHANGED <<putPc, putReq, putExisting, putResp, nBatch, lastBatch, wlog>>
    /\ UNCHANGED <<hubVars, ingestVars, storeVars, schedVars, cacheVars, watchVars, lockVars>>

SettingsCallNext ==
    /\ edgeResp.status = 0
    /\ \E r \in SettingsRequests :
          \/ ListSettingsCall(r)
          \/ GetSettingCall(r)
          \/ DeleteSettingCall(r)

\* The requests of one run: PUTs and then one list, get or delete, or one
\* batch.
SettingsApiNext ==
    \/ nBatch = 0 /\ edgeResp.status = 0 /\ PutNext
    \/ nBatch = 0 /\ (\A r \in Puts : putPc[r] # "read") /\ SettingsCallNext
    \/ /\ \A r \in Puts : putPc[r] = "new"
       /\ edgeResp.status = 0
       /\ BatchNext

(***************************************************************************)
(* WebSocket admission (Server.handleMonitorWebSocket,                      *)
(* Server.authenticateWSRequest).                                           *)
(***************************************************************************)
\* session: the account of the session the cookie names ("none": no cookie,
\* "bad": a cookie the session manager does not know). token: the account of
\* the share the token names ("": no token, "bad": no such share).
WSRequests ==
    [handler : {"ws"},
     hub : BOOLEAN,
     session : {"none", "bad"} \cup Accounts,
     token : {"", "bad"} \cup Accounts,
     storeEnabled : BOOLEAN,
     upgradeOk : BOOLEAN]

\* getSessionFromCookie: the session, or "" for nil.
getSessionFromCookie(r) == IF r.session \in Accounts THEN r.session ELSE ""

\* GetMonitorShareByToken: the share's account, or "" for an error or nil.
GetMonitorShareByToken(tok) == IF tok \in Accounts THEN tok ELSE ""

authenticateTokenFirst(r) ==
    IF r.token # "" /\ r.storeEnabled /\ GetMonitorShareByToken(r.token) # ""
    THEN [account |-> GetMonitorShareByToken(r.token), err |-> FALSE]
    ELSE IF getSessionFromCookie(r) # ""
    THEN [account |-> getSessionFromCookie(r), err |-> FALSE]
    ELSE [account |-> "", err |-> TRUE]

authenticateWSRequest(r) ==
    IF getSessionFromCookie(r) # ""
    THEN [account |-> getSessionFromCookie(r), err |-> FALSE]
    ELSE IF r.token # ""
    THEN IF ~r.storeEnabled
         THEN [account |-> "", err |-> TRUE]
         ELSE IF GetMonitorShareByToken(r.token) = ""
         THEN [account |-> "", err |-> TRUE]
         ELSE [account |-> GetMonitorShareByToken(r.token), err |-> FALSE]
    ELSE [account |-> "", err |-> TRUE]

\* The status the handler answers with; 101 is the completed upgrade, 400 the
\* answer of a failed one.
WSStatus(r) ==
    IF ~r.hub THEN 503
    ELSE IF authenticateWSRequest(r).err THEN 401
    ELSE IF ~r.upgradeOk THEN 400
    ELSE 101

\* handleMonitorWebSocket for the request r; c is the client it would create.
handleMonitorWebSocket(c, r) ==
    /\ conn[c] = "none"
    /\ \A d \in Clients : d < c => conn[d] # "none"
    /\ edgeReq' = r
    /\ edgeResp' = [status |-> WSStatus(r), body |-> <<>>]
    /\ UNCHANGED edgeStore
    /\ IF WSStatus(r) = 101
       THEN NewClient(c, authenticateWSRequest(r).account)
       ELSE UNCHANGED hubVars
    /\ UNCHANGED <<settingsVars, ingestVars, storeVars, schedVars, cacheVars, watchVars, lockVars>>

WSNext ==
    \/ \E c \in Clients, r \in WSRequests : handleMonitorWebSocket(c, r)
    \/ HubRegister

(***************************************************************************)
(* Version metadata (package version: GetFormattedBuildDate,                *)
(* GetVersionInfo).  A string is a record of its parts: a text, or the      *)
(* parts of a date-time written as <day> <sep> <hour> <zone>.               *)
(***************************************************************************)
\* Hours on the clock of a day.
ClockHours == 24

\* Asia/Shanghai is UTC+8.
BeijingOffset == 8

Text(t) == [kind |-> "text", text |-> t]

\* The zone suffixes a build date may carry, "" for none.
Zones == {"Z", "+08:00", "-05:00", ""}

\* The values -ldflags may give BuildDate: unset, "dev", other texts, and
\* date-times, among them ones with a blank for the "T", an hour past 23 or
\* no zone.
BuildDates ==
    {Text(""), Text("dev"), Text("yesterday")}
        \cup [kind : {"stamp"}, day : 1..MaxBuildDay, sep : {"T", " "},
              hour : 0..ClockHours, zone : Zones]

\* Hours east of UTC of a zone suffix.
ZoneOffset(z) ==
    CASE z = "Z" -> 0
      [] z = "+08:00" -> 8
      [] z = "-05:00" -> 0 - 5

\* time.Parse(time.RFC3339, s): the instant in hours, or an error.
ParseRFC3339(s) ==
    IF /\ s.kind = "stamp"
       /\ s.sep = "T"
       /\ s.hour < ClockHours
       /\ s.zone # ""
    THEN [err |-> FALSE, t |-> s.day * ClockHours + s.hour - ZoneOffset(s.zone)]
    ELSE [err |-> TRUE, t |-> 0]

\* timeutil.FormatBeijingTime: the wall clock of Asia/Shanghai at instant t,
\* written in the display pattern (<day> ri <hour> shi).
FormatBeijingTimeAsUTC(t) ==
    [kind |-> "beijing", day |-> t \div ClockHours, hour |-> t % ClockHours]

FormatBeijingTime(t) ==
    [kind |-> "beijing",
     day |-> (t + BeijingOffset) \div ClockHours,
     hour |-> (t + BeijingOffset) % ClockHours]

\* BuildDate + " (geshi cuowu)" (format error).
Suffixed(s) == [kind |-> "suffixed", of |-> s]

\* "weizhi" (unknown) and "kaifa banben" (development version) stand for the
\* two Chinese texts of the code.
GetFormattedBuildDateUTC(BuildDate) ==
    IF BuildDate = Text("") THEN Text("weizhi")
    ELSE IF BuildDate = Text("dev") THEN Text("kaifa banben")
    ELSE IF ParseRFC3339(BuildDate).err THEN Suffixed(BuildDate)
    ELSE FormatBeijingTimeAsUTC(ParseRFC3339(BuildDate).t)

GetFormattedBuildDate(BuildDate) ==
    IF BuildDate = Text("") THEN Text("weizhi")
    ELSE IF BuildDate = Text("dev") THEN Text("kaifa banben")
    ELSE IF ParseRFC3339(BuildDate).err THEN Suffixed(BuildDate)
    ELSE FormatBeijingTime(ParseRFC3339(BuildDate).t)

GetVersionInfo(BuildDate) ==
    [BuildDate |-> BuildDate,
     BuildDateBeijing |-> GetFormattedBuildDate(BuildDate)]

\* The binary was built with some BuildDate.
VersionInit ==
    /\ edgeReq \in [handler : {"version"}, BuildDate : BuildDates]
    /\ edgeResp = NoEdgeResp
    /\ edgeStore = <<>>

\* One call of GetVersionInfo.
VersionCall ==
    /\ edgeReq.handler = "version"
    /\ edgeResp.status = 0
    /\ edgeResp' = [status |-> 200, body |-> GetVersionInfo(edgeReq.BuildDate)]
    /\ UNCHANGED <<edgeReq, edgeStore>>
    /\ UNCHANGED notEdge

VersionNext == VersionCall

(***************************************************************************)
(* The first delay of the two scheduler loops (Start, nextAggregateDelay,   *)
(* nextCleanupDelay, internal/proxy/api_health_history.go).  An instant is  *)
(* a number of units since the zero time, in UTC as the loops pass it; an   *)
(* hour has HourLen units and a day ClockHours hours.                       *)
(***************************************************************************)
ClockDay == ClockHours * HourLen

defaultAggregateInterval == HourLen

defaultCleanupInterval == ClockDay

\* 02:00 UTC.
cleanupHour == 2

\* The instants the loops may start at, and the intervals a scheduler may be
\* configured with when Start is called.
DelayInputs ==
    [handler : {"delay"}, now : 0..(2 * ClockDay - 1),
     aggregateInterval : {0 - HourLen, 0, 1, HourLen, HourLen + 1},
     cleanupInterval : {0 - HourLen, 0, HourLen, 20 * HourLen - 1, 20 * HourLen, ClockDay}]

DelayInit ==
    /\ edgeReq \in DelayInputs
    /\ edgeResp = NoEdgeResp
    /\ edgeStore = <<>>

\* Start: an interval that is not positive is replaced by its default.
StartInterval(interval, default) == IF interval <= 0 THEN default ELSE interval

\* time.Time.Truncate(d): t rounded down to a multiple of d since the zero
\* time; t itself for d <= 0.
Truncate(t, d) == IF d <= 0 THEN t ELSE t - (t % d)

\* time.Date(now.Year(), now.Month(), now.Day(), hour, 0, 0, 0, time.UTC).
DateAt(now, hour) == (now - (now % ClockDay)) + hour * HourLen

nextAggregateDelay(aggregateInterval, now) ==
    IF aggregateInterval <= 0
    THEN defaultAggregateInterval
    ELSE (Truncate(now, aggregateInterval) + aggregateInterval) - now

nextCleanupDelayFromNow(cleanupInterval, now) ==
    IF cleanupInterval >= 20 * HourLen
    THEN LET next == DateAt(now, cleanupHour)
         IN (IF next < now THEN next + ClockDay ELSE next) - now
    ELSE IF cleanupInterval <= 0 THEN defaultCleanupInterval ELSE cleanupInterval

nextCleanupDelay(cleanupInterval, now) ==
    IF cleanupInterval >= 20 * HourLen
    THEN LET next == DateAt(now, cleanupHour)
         IN (IF ~(next > now) THEN next + ClockDay ELSE next) - now
    ELSE IF cleanupInterval <= 0 THEN defaultCleanupInterval ELSE cleanupInterval

\* Start followed by the first statement of aggregateLoop and of cleanupLoop:
\* the intervals the scheduler runs with and the delay of each timer.
FirstDelays ==
    /\ edgeReq.handler = "delay"
    /\ edgeResp.status = 0
    /\ LET agg == StartInterval(edgeReq.aggregateInterval, defaultAggregateInterval)
           cln == StartInterval(edgeReq.cleanupInterval, defaultCleanupInterval)
       IN edgeResp' = [status |-> 200,
                       body |-> [aggregateInterval |-> agg, cleanupInterval |-> cln,
                                 aggregateDelay |-> nextAggregateDelay(agg, edgeReq.now),
                                 cleanupDelay |-> nextCleanupDelay(cln, edgeReq.now)]]
    /\ UNCHANGED <<edgeReq, edgeStore>>
    /\ UNCHANGED notEdge

DelayNext == FirstDelays

(***************************************************************************)
(* The goroutine of taskContext (MetricsScheduler.taskContext).  It waits   *)
(* in a select for the stop channel, then calls cancel, or for the          *)
(* context's Done channel; in both cases it returns.                        *)
(***************************************************************************)
WatchIdle == watchers = [l \in Loops |-> 0]

\* The goroutines of loop l whose context is over: they wait in the select
\* with the Done case ready.
Stale(l) == watchers[l] - (IF taskCtx[l] = "live" THEN 1 ELSE 0)

notSchedWatch == <<hubVars, settingsVars, ingestVars, storeVars, cacheVars, edgeVars, lockVars>>

\* A loop starts its task: taskContext makes the context and starts the
\* goroutine.
TaskStart(l) ==
    /\ FireTask(l)
    /\ watchers' = [watchers EXCEPT ![l] = @ + 1]
    /\ UNCHANGED notSchedWatch

\* case <-m.stopCh: cancel(), and the goroutine returns.
WatcherStop(l) ==
    /\ WatcherCancels(l)
    /\ watchers' = [watchers EXCEPT ![l] = @ - 1]
    /\ UNCHANGED notSchedWatch

\* case <-ctx.Done(): the goroutine returns (with the stop channel closed as
\* well the select may take the stop case: cancel on a context that is over
\* does nothing).
WatcherDone(l) ==
    /\ Stale(l) > 0
    /\ watchers' = [watchers EXCEPT ![l] = @ - 1]
    /\ UNCHANGED notWatch

\* One Stop call is made; how long it waits for the loops plays no part
\* here.
WatchNext ==
    \/ Start
    \/ Stop(1)
    \/ \E l \in Loops : LoopStop(l) \/ TaskStart(l) \/ TaskReturn(l)
    \/ \E l \in Loops, outcome \in {"ok", "error", "panic"} : StoreCall(l, outcome)
    \/ \E l \in Loops : CtxExpire(l)
    \/ \E l \in Loops : WatcherStop(l) \/ WatcherDone(l)

\* Scheduling: the goroutine of taskContext is always waiting in its select,
\* so it runs once a case is ready.  Nothing is assumed about the loops: a
\* storage call may take as long as its context lets it.
WatchFair ==
    \A l \in Loops : WF_vars(WatcherStop(l)) /\ WF_vars(WatcherDone(l))

(***************************************************************************)
(* Specifications.                                                          *)
(***************************************************************************)
InitHub == HubInit /\ SettingsIdle /\ IngestIdle /\ StoreIdle
    /\ NewMetricsScheduler /\ CacheIdle /\ EdgeIdle /\ WatchIdle /\ LockIdle

\* The hub with clients whose connections stay up.
SpecHub == InitHub /\ [][HubNext]_vars

\* The hub with clients whose pumps may exit at any time.
SpecHubPumps == InitHub /\ [][HubPumpsNext]_vars

SpecHubExits == InitHub /\ [][HubExitsNext]_vars

InitSettings == HubInit /\ SettingsInit /\ IngestIdle /\ StoreIdle
    /\ NewMetricsScheduler /\ CacheIdle /\ EdgeIdle /\ WatchIdle /\ LockIdle

\* Concurrent PUT /api/settings/{key} requests.
SpecPut == InitSettings /\ [][PutNext]_vars

InitBatch == HubInit /\ BatchInit /\ IngestIdle /\ StoreIdle
    /\ NewMetricsScheduler /\ CacheIdle /\ EdgeIdle /\ WatchIdle /\ LockIdle

\* A POST /api/settings/batch call.
SpecBatch == InitBatch /\ [][BatchNext]_vars

InitIngest == HubInit /\ SettingsIdle /\ IngestInit /\ StoreIdle
    /\ NewMetricsScheduler /\ CacheIdle /\ EdgeIdle /\ WatchIdle /\ LockIdle

\* InsertMetrics on any record.
SpecIngest == InitIngest /\ [][IngestNext]_vars

InitStore == HubInit /\ SettingsIdle /\ IngestIdle /\ StoreInit
    /\ NewMetricsScheduler /\ CacheIdle /\ EdgeIdle /\ WatchIdle /\ LockIdle

\* The time store: inserts, then a rollup (and the same rollup again) or a
\* cleanup.
SpecStore == InitStore /\ [][StoreNext]_vars

InitQuery == HubInit /\ SettingsIdle /\ IngestIdle /\ QueryInit
    /\ NewMetricsScheduler /\ CacheIdle /\ EdgeIdle /\ WatchIdle /\ LockIdle

\* The time store: inserts, then a query.
SpecQuery == InitQuery /\ [][QueryNext]_vars

InitSched == HubInit /\ SettingsIdle /\ IngestIdle /\ StoreIdle
    /\ NewMetricsScheduler /\ CacheIdle /\ EdgeIdle /\ WatchIdle /\ LockIdle

\* The scheduler: Start, Stop calls and the two loops.
SpecSched == InitSched /\ [][SchedNext]_vars

\* The scheduler under the scheduling of the Go runtime.
SpecSchedFair == InitSched /\ [][SchedNext]_vars /\ SchedFair

\* The scheduler with the goroutines of taskContext.
SpecWatch == InitSched /\ [][WatchNext]_vars /\ WatchFair

\* The time store under the hourly aggregation ticks.
SpecTicks == InitSched /\ [][TicksNext]_vars

InitCache == HubInit /\ CacheInit /\ IngestIdle /\ StoreIdle
    /\ NewMetricsScheduler /\ CacheIdle /\ EdgeIdle /\ WatchIdle /\ LockIdle

\* The settings cache called from several goroutines.
SpecCache == InitCache /\ [][CacheNext]_vars

\* The settings cache called by one goroutine.
SpecCacheSeq == InitCache /\ [][CacheSeqNext]_vars

InitCacheSet == HubInit /\ CacheSetInit /\ IngestIdle /\ StoreIdle
    /\ NewMetricsScheduler /\ CacheIdle /\ EdgeIdle /\ WatchIdle /\ LockIdle

\* Set calls of one goroutine over a store whose UpsertSetting may fail.
SpecCacheSet == InitCacheSet /\ [][CacheSetNext]_vars

\* Two goroutines calling into the cache, with a callback that calls back.
SpecCacheLock == InitSched /\ [][LockNext]_vars /\ LockFair

InitEdge == HubInit /\ SettingsIdle /\ IngestIdle /\ StoreIdle
    /\ NewMetricsScheduler /\ CacheIdle /\ EdgeIdle /\ WatchIdle /\ LockIdle

\* One health-history request.
SpecHistory == InitEdge /\ [][HistoryNext]_vars

\* PUT, batch, list, get and delete requests on one settings table.
SpecSettingsApi == InitSettings /\ [][SettingsApiNext]_vars

\* WebSocket requests and the hub registering the clients they create.
SpecWS == InitEdge /\ [][WSNext]_vars

InitVersion == HubInit /\ SettingsIdle /\ IngestIdle /\ StoreIdle
    /\ NewMetricsScheduler /\ CacheIdle /\ VersionInit /\ WatchIdle /\ LockIdle

\* GetVersionInfo in a binary built with any of the build dates.
SpecVersion == InitVersion /\ [][VersionNext]_vars

InitDelay == HubInit /\ SettingsIdle /\ IngestIdle /\ StoreIdle
    /\ NewMetricsScheduler /\ CacheIdle /\ DelayInit /\ WatchIdle /\ LockIdle

\* The first delays of the loops, for any start instant and intervals.
SpecDelay == InitDelay /\ [][DelayNext]_vars

(***************************************************************************)
(* Hub claims.                                                              *)
(***************************************************************************)
Registered(c) == \E a \in Accounts : c \in clients[a]

\* The frames a client has been handed: those in its outbound queue and the
\* last one its writer loop put on the socket.
FramesOf(c) ==
    {send[c][i] : i \in 1..Len(send[c])}
        \cup (IF lastWritten[c] = NoFrame THEN {} ELSE {lastWritten[c]})

\* C1: tenant isolation. Every frame handed to a client carries the account the
\* client was created with, and a client is only ever held in the hub's map
\* under that account.
C1_TenantIsolation ==
    \A c \in Clients :
        /\ \A f \in FramesOf(c) : f.account_id = accountID[c]
        /\ \A a \in Accounts : c \in clients[a] => accountID[c] = a

\* Two clients of different accounts are registered and each holds a frame,
\* i.e. broadcasts for both accounts have been fanned out side by side.
C1_Witness ==
    \E c \in Clients, d \in Clients :
        /\ Registered(c) /\ Registered(d)
        /\ accountID[c] # accountID[d]
        /\ send[c] # <<>> /\ send[d] # <<>>

\* The Run goroutine is blocked in its own `h.unregister <- client`: it is the
\* only receiver of that channel, so the state is permanent.
HubBlocked == hubPc = "send_unreg" /\ Len(unregisterCh) = UnregisterCap

\* C2: hub backpressure. A broadcast that found a client's queue full still
\* evicts that client and still serves the other clients of the account: the
\* fan-out never stalls on the eviction while a client with room in its queue
\* is waiting for the message (stalled, the slow client is never removed and
\* the waiting client never gets the frame).
C2_BackpressureServesOthers ==
    ~(HubBlocked /\ \E d \in fanTodo : Len(send[d]) < SendCap)

\* C3: once a broadcast has found client c's queue full, no later iteration of
\* the fan-out visits c again (no further enqueue is attempted on c).
C3_NoAttemptAfterFull ==
    [][\A c \in Clients :
          c \in fullFound => ~(hubPc = "range" /\ c \in fanTodo /\ c \notin fanTodo')]_vars

Payloads(c) ==
    (IF lastWritten[c] = NoFrame THEN <<>> ELSE <<lastWritten[c].payload>>)
        \o [i \in 1..Len(send[c]) |-> send[c][i].payload]

\* C4: per-account ordering. The frames of a client, from the one last written
\* to the socket to the back of its queue, are in the order in which their
\* messages were accepted onto the broadcast channel.
C4_PerAccountOrder ==
    \A c \in Clients :
        \A i \in 1..Len(Payloads(c)), j \in 1..Len(Payloads(c)) :
            i < j => Payloads(c)[i] < Payloads(c)[j]

\* A client has been handed two frames of its account: one is on the socket,
\* the next one in its queue.
C4_Witness == \E c \in Clients : Len(Payloads(c)) >= 2

(***************************************************************************)
(* Settings claims.                                                         *)
(***************************************************************************)
PutDone(r) == putPc[r] = "done"

PutSucceeded(r) == PutDone(r) /\ putResp[r].status = 200

\* The PUT requests for key k that carry version v and whose handler read the
\* row at version v: the requests that start from the same version.
PutGroup(k, v) ==
    {r \in Puts : /\ putPc[r] # "new"
                  /\ putReq[r].admin
                  /\ putReq[r].key = k
                  /\ putReq[r].version = v
                  /\ putExisting[r].version = v}

\* Somebody outside the group wrote the row of k while it was at version v.
ForeignWrite(k, v) ==
    \E i \in 1..Len(wlog[k]) : wlog[k][i].prior = v /\ wlog[k][i].by \notin PutGroup(k, v)

WritesBy(k, G) == {i \in 1..Len(wlog[k]) : wlog[k][i].by \in G}

\* C5: settings CAS. Of the PUT requests for one key that start from the same
\* version v, at most one succeeds, its new_version is v + 1 and every other
\* one is answered 409 (version conflict); when they have all finished and no
\* other writer got in first, exactly one succeeded and the group wrote the
\* row exactly once (the version went up by one).
C5_SettingsCAS ==
    \A k \in Keys, v \in 1..MaxReqVersion :
        LET G == PutGroup(k, v)
            won == {r \in G : PutSucceeded(r)}
        IN /\ Cardinality(won) <= 1
           /\ \A r \in G : PutDone(r) => putResp[r].status \in {200, 409}
           /\ \A r \in won : putResp[r].new_version = v + 1
           /\ (G # {} /\ (\A r \in G : PutDone(r)) /\ ~ForeignWrite(k, v))
                  => /\ Cardinality(won) = 1
                     /\ Cardinality(WritesBy(k, G)) = 1

\* Two requests raced from the same version: both read it, one won, the other
\* was refused by the store.
C5_Witness ==
    \E k \in Keys, v \in 1..MaxReqVersion :
        \E r1 \in PutGroup(k, v), r2 \in PutGroup(k, v) :
            /\ r1 # r2
            /\ PutSucceeded(r1)
            /\ PutDone(r2) /\ putResp[r2].status = 409

\* C6: the 409 of the loser carries the current server-side version. When two
\* PUTs for one key carry the same version v, one succeeded (new_version v + 1),
\* the row has not been written since, and the other was answered 409, that
\* answer has current_version = v + 1.
C6_ConflictCarriesCurrentVersion ==
    \A r1 \in Puts, r2 \in Puts :
        (/\ r1 # r2
         /\ PutDone(r1) /\ PutDone(r2)
         /\ putReq[r1].admin /\ putReq[r2].admin
         /\ putReq[r1].key = putReq[r2].key
         /\ putReq[r1].version = putReq[r2].version
         /\ putReq[r1].version >= 1
         /\ putResp[r1].status = 200
         /\ putResp[r1].new_version = putReq[r1].version + 1
         /\ settings[putReq[r1].key].version = putReq[r1].version + 1
         /\ putExisting[r2].version >= putReq[r2].version
         /\ putResp[r2].status = 409)
            => putResp[r2].current_version = putReq[r2].version + 1

\* C7: a PUT whose row is still as its handler read it (no concurrent writer):
\* existing row and version 0 -> 400, row unchanged; existing row and another
\* version -> 409 with the row's version, row unchanged; absent row -> created
\* at version 1 whatever the request's version; matching version -> updated.
C7_SequentialPut ==
    [][\A r \in Puts :
          (/\ putPc[r] = "read"
           /\ putPc'[r] = "done"
           /\ settings[putReq[r].key] = putExisting[r])
              => LET k == putReq[r].key
                     v == putReq[r].version
                     row == settings[k]
                     resp == putResp'[r]
                 IN CASE row # NoRow /\ v = 0 ->
                           resp.status = 400 /\ settings' = settings
                      [] row # NoRow /\ v # 0 /\ v # row.version ->
                           /\ resp.status = 409
                           /\ resp.current_version = row.version
                           /\ settings' = settings
                      [] row = NoRow ->
                           /\ resp.status = 200 /\ resp.new_version = 1
                           /\ settings' = [settings EXCEPT ![k] = [version |-> 1, value |-> r]]
                      [] OTHER ->
                           /\ resp.status = 200 /\ resp.new_version = v + 1
                           /\ settings' = [settings EXCEPT ![k] = [version |-> v + 1, value |-> r]]]_vars

\* One request on an existing row was refused for its missing version and
\* another for its stale version, the row being as they read it.
C7_Witness ==
    \E r1 \in Puts, r2 \in Puts :
        /\ PutDone(r1) /\ putResp[r1].status = 400
        /\ settings[putReq[r1].key] = putExisting[r1]
        /\ PutDone(r2) /\ putResp[r2].status = 409
        /\ settings[putReq[r2].key] = putExisting[r2]
        /\ putResp[r2].current_version = settings[putReq[r2].key].version

\* C8: per-key linearizability. Every successful write that found the row
\* present carried the version of the row it replaced.
C8_WritesAreVersionChecked ==
    \A k \in Keys :
        \A i \in 1..Len(wlog[k]) :
            wlog[k][i].prior >= 1 => wlog[k][i].req = wlog[k][i].prior

\* Number of the first n items that are for key k.
RECURSIVE ItemsFor(_, _, _)
ItemsFor(items, k, n) ==
    IF n = 0 THEN 0
    ELSE ItemsFor(items, k, n - 1) + (IF items[n].key = k THEN 1 ELSE 0)

\* C9: BatchUpdateSettings is all-or-nothing. For a batch of an admin with no
\* blank key: if some setting is missing or has a version conflict (given the
\* settings before it in the batch), the answer is the status of the first such
\* error (404 or 409) and the table is unchanged; otherwise the answer is 200
\* and every setting of the batch is updated.
C9_BatchAllOrNothing ==
    [][nBatch' # nBatch =>
          LET items == TrimmedItems(lastBatch'.items)
              n == Len(items)
              Missing(i) == settings[items[i].key] = NoRow
              Bad(i) == \/ Missing(i)
                        \/ items[i].version #
                              settings[items[i].key].version + ItemsFor(items, items[i].key, i - 1)
              bad == {i \in 1..n : Bad(i)}
              first == CHOOSE i \in bad : \A j \in bad : i <= j
          IN (lastBatch'.admin /\ \A i \in 1..n : items[i].key # "")
                => IF bad # {}
                   THEN /\ lastBatch'.status = IF Missing(first) THEN 404 ELSE 409
                        /\ settings' = settings
                   ELSE /\ lastBatch'.status = 200
                        /\ \A k \in Keys :
                              settings'[k] =
                                 IF ItemsFor(items, k, n) = 0 THEN settings[k]
                                 ELSE [version |-> settings[k].version + ItemsFor(items, k, n),
                                       value |-> 0 - nBatch']]_vars

\* A batch of two settings was refused with 409 for its second setting while
\* its first setting, of another key, matches its row.
C9_Witness ==
    /\ lastBatch.admin /\ lastBatch.status = 409
    /\ Len(lastBatch.items) = 2
    /\ LET items == TrimmedItems(lastBatch.items)
       IN /\ items[1].key \in Keys /\ items[2].key \in Keys
          /\ items[1].key # items[2].key
          /\ items[1].version >= 1
          /\ items[1].version = settings[items[1].key].version
          /\ settings[items[2].key] # NoRow
          /\ items[2].version # settings[items[2].key].version

(***************************************************************************)
(* Ingest claims.                                                           *)
(***************************************************************************)
RowConsistent(row) == row.requests_total >= row.requests_success + row.requests_failed

Derivable(r) ==
    \/ r.RequestsTotal = 0 /\ r.RequestsSuccess + r.RequestsFailed <= MaxInt
    \/ r.RequestsTotal > 0 /\ r.RequestsSuccess = 0
    \/ r.RequestsTotal >= r.RequestsSuccess + r.RequestsFailed

AggregateDone == lastCall.op = "aggregate" /\ ~lastCall.err

\* C11: rollup idempotence. Running AggregateMetrics a second time with the
\* same target, account and window, the source table unchanged in between,
\* leaves every destination table as the first run left it.
C11_RollupIdempotent ==
    [][(/\ storeOps = 1
        /\ storeOps' = 2
        /\ lastCall.op = "aggregate"
        /\ lastCall' = lastCall
        /\ rawRows' = rawRows) => aggTbl' = aggTbl]_vars

\* The rollup raw -> hourly has run twice over two raw rows of one bucket: the
\* hourly row holds their sum, once.
C11_Witness ==
    /\ storeOps = 2
    /\ AggregateDone
    /\ lastCall.args[2] = "hour"
    /\ \E i, j \in 1..Len(rawRows) :
          /\ i < j
          /\ rawRows[i].account_id = rawRows[j].account_id
          /\ Bucket(rawRows[i].ts, HourLen) = Bucket(rawRows[j].ts, HourLen)
          /\ \E d \in aggTbl["hour"] :
                /\ d.account_id = rawRows[i].account_id
                /\ d.bucket_start = Bucket(rawRows[i].ts, HourLen)
                /\ d.requests_total = rawRows[i].requests_total + rawRows[j].requests_total

\* BUCKETS(W): the buckets of the times of the window.
BucketsOf(w, len) == {Bucket(t, len) : t \in w.from..(w.to - 1)}

C13_Retention ==
    [][(lastCall'.op = "cleanup" /\ storeOps' = storeOps + 1) =>
          LET acct == lastCall'.args[1]
              now == IF lastCall'.args[2] = 0 THEN lastCall'.args[3] ELSE lastCall'.args[2]
              Gone(a, t, days) == t < now - days * DayLen /\ (acct = "" \/ a = acct)
              KeptRaw(r) == ~Gone(r.account_id, r.ts, 7)
          IN /\ rawRows' = SelectSeq(rawRows, KeptRaw)
             /\ aggTbl'["hour"] =
                   {r \in aggTbl["hour"] : ~Gone(r.account_id, r.bucket_start, 30)}
             /\ aggTbl'["day"] =
                   {r \in aggTbl["day"] : ~Gone(r.account_id, r.bucket_start, 365)}
             /\ aggTbl'["month"] = aggTbl["month"]]_vars

\* A cleanup for account a1 has removed a1's old hourly row and left a1's newer
\* hourly row and the old hourly row of another account.
C13_Witness ==
    /\ lastCall.op = "cleanup"
    /\ lastCall.args[1] = "a1"
    /\ \E new \in aggTbl["hour"], other \in aggTbl["hour"] :
          /\ new.account_id = "a1"
          /\ other.account_id = "default"
          /\ other.bucket_start < new.bucket_start
          /\ \A d \in aggTbl["hour"] :
                d.account_id = "a1" => d.bucket_start > other.bucket_start

\* C14: QueryMetrics returns rows of the table of the granularity only, each
\* of the query's account (and node, when given) with from <= t < to, none of
\* them twice, in ascending order of t; without limit and offset it returns
\* every such row, and with them the page of that many rows.
C14_QueryWindow ==
    (lastCall.op = "query" /\ ~lastCall.err) =>
        LET q == lastCall.args[1]
            gran == IF q.Granularity = "" THEN "raw" ELSE q.Granularity
            w == QueryWindow(gran, q.From, q.To, lastCall.args[2])
            acct == IF q.AccountID = "" THEN "default" ELSE q.AccountID
            match == {r \in TableRows(rawRows, aggTbl, gran) :
                         /\ r.account_id = acct
                         /\ (q.NodeID # "" => r.node_id = q.NodeID)
                         /\ w.from <= r.t /\ r.t < w.to}
            n == Len(queryRes)
            rest == IF Cardinality(match) > q.Offset
                    THEN Cardinality(match) - q.Offset ELSE 0
        IN /\ \A i \in 1..n : queryRes[i] \in match
           /\ \A i, j \in 1..n : i < j =>
                 queryRes[i] # queryRes[j] /\ queryRes[i].t <= queryRes[j].t
           /\ (q.Limit = 0 /\ q.Offset = 0) => {queryRes[i] : i \in 1..n} = match
           /\ n = IF q.Limit > 0 /\ q.Limit < rest THEN q.Limit ELSE rest

\* A query of the hourly table for a1 returned a1's two raw-free rows up to the
\* bound: the row at exactly `to` and the rows of the other account are in the
\* table and were not returned.
C14_Witness ==
    /\ lastCall.op = "query" /\ ~lastCall.err
    /\ lastCall.args[1].Granularity = "hour"
    /\ lastCall.args[1].AccountID = "a1"
    /\ lastCall.args[1].Limit = 0 /\ lastCall.args[1].Offset = 0
    /\ Len(queryRes) = 1
    /\ \E d \in aggTbl["hour"] :
          d.account_id = "a1" /\ d.bucket_start = lastCall.args[1].To
    /\ \E d \in aggTbl["hour"] :
          d.account_id = "default" /\ d.bucket_start = queryRes[1].t

(***************************************************************************)
(* Scheduler claims.                                                        *)
(***************************************************************************)
AllExited == \A l \in Loops : loopPc[l] = "exited"

\* C15: however many Stop calls there are, the stop channel is closed at
\* most once; and once it is closed and the loops have been started, both
\* loops exit and the wait group reaches zero, whatever the loops were
\* doing.
C15_SchedulerShutdown ==
    /\ [](stopCloses <= 1)
    /\ (stopCh = "closed" /\ schedStarted) ~> (wg = 0 /\ AllExited)

\* Every Stop call has passed the once-guard, the loops had been started,
\* and both loops have exited with the wait group at zero.
C15_Witness ==
    /\ \A s \in Stoppers : stopPc[s] # "idle"
    /\ stopCloses = 1
    /\ schedStarted
    /\ AllExited
    /\ wg = 0
    /\ \A l \in Loops : ~panicked[l]

OtherLoop(l) == CHOOSE o \in Loops : o # l

\* C16: a panic in one loop ends that loop with the wait group decremented
\* and leaves the other loop where it was; the wait group counts the loops
\* still running, so that once the last loop has exited a waiting Stop
\* returns through the wait group and not through the forced-exit timeout.
C16_PanicSafety ==
    /\ [][\A l \in Loops :
            (panicked'[l] /\ ~panicked[l]) =>
               /\ loopPc'[l] = "exited"
               /\ wg' = wg - 1
               /\ loopPc'[OtherLoop(l)] = loopPc[OtherLoop(l)]
               /\ ticks'[OtherLoop(l)] = ticks[OtherLoop(l)]
               /\ taskCtx'[OtherLoop(l)] = taskCtx[OtherLoop(l)]]_vars
    /\ []((\E l \in Loops : panicked[l]) =>
             wg = Cardinality({l \in Loops :
                                 loopPc[l] \notin {"idle", "exited"}}))
    /\ [][\A s \in Stoppers :
            (stopPc[s] = "wait" /\ stopPc'[s] = "timeout") => ~AllExited]_vars
    /\ (AllExited /\ \E l \in Loops : panicked[l])
          ~> (\A s \in Stoppers : stopPc[s] # "wait")

\* One loop panicked, the other ran its task to the end and was stopped,
\* no Stop call timed out and one returned through the wait group.
C16_Witness ==
    \E l \in Loops :
       /\ panicked[l]
       /\ ~panicked[OtherLoop(l)]
       /\ ticks[OtherLoop(l)] >= 1
       /\ \A s \in Stoppers : stopPc[s] # "timeout"
       /\ loopPc[OtherLoop(l)] = "exited"
       /\ \E s \in Stoppers : stopPc[s] = "done"

\* C17: the storage calls of a tick are made in the order of the code, and
\* unless the scheduler is being stopped each of them is handed a context
\* that is neither expired nor cancelled, whatever became of the calls
\* before it.
C17_StepsUnderLiveContext ==
    \A l \in Loops :
       \A k \in 1..Len(invoked[l]) :
          /\ invoked[l][k].step = Steps(l)[k]
          /\ \/ invoked[l][k].ctx = "live"
             \/ invoked[l][k].ctx = "cancelled" /\ stopCh = "closed"

(***************************************************************************)
(* Settings cache claims.                                                   *)
(***************************************************************************)
Invocations == BagToSet(calls)

\* C18: no callback is invoked twice for one mutation of the table,
\* however the Set, UpdateLocal and Refresh calls interleave.
C18_AtMostOncePerChange ==
    \A e1, e2 \in Invocations :
       (e1.ev > 0 /\ e1.cb = e2.cb /\ e1.ev = e2.ev) =>
          (e1 = e2 /\ CopiesIn(e1, calls) = 1)

\* The invocations a Refresh owes, given the map it found and the values of
\* the table: one per callback for every key that is new or has another
\* value, with that value, and one per callback for every key the table no
\* longer holds, with Nil.
Owed(old, new) ==
    SetToBag({[cb |-> f, key |-> k, value |-> new[k], ev |-> rowEvent[k]] :
                f \in Callbacks,
                k \in {x \in Keys : old[x] # new[x]}})

C20_LoadFailuresSwallowed ==
    [][/\ (cachePc = "new" /\ cachePc' = "ready") => calls' = calls
       /\ (cachePc = "new" /\ cachePc' = "ready" /\ reads' = <<"err">>) =>
             /\ cacheData' = [k \in Keys |-> Nil]
             /\ \A k \in Keys, d \in CacheValues : GetInt(cacheData', k, d) = d
       /\ (nRefresh' = nRefresh + 1 /\ reads' = Append(reads, "err")) =>
             /\ cacheData' = cacheData
             /\ cacheVersion' = cacheVersion
             /\ nCallbacks' = nCallbacks
             /\ calls' = calls
             /\ refPc' = "idle"]_vars

\* The cache was constructed over a failing store, has since got a value
\* and a callback, and a Refresh has failed.
C20_Witness ==
    /\ Len(reads) >= 2
    /\ reads[1] = "err"
    /\ reads[Len(reads)] = "err"
    /\ nCallbacks >= 1
    /\ \E k \in Keys : cacheData[k] # Nil
    /\ refPc = "idle"

(***************************************************************************)
(* Health-history claims.                                                   *)
(***************************************************************************)
HistoryDone == edgeResp.status # 0 /\ edgeReq.handler = "health-history"

\* A GET on a well-formed path with the store enabled.
HistoryAsked ==
    /\ HistoryDone
    /\ edgeReq.method = "GET"
    /\ edgeReq.storeEnabled
    /\ edgeReq.pathOk

Authorized(r) ==
    /\ r.caller # "none"
    /\ r.nodeAccount # "unknown"
    /\ r.admin \/ r.caller = r.nodeAccount

\* The request was answered 400: a time did not parse, or from is after to.
HistoryStatus400 == edgeResp.status = 400

\* C21: a request for a node's history reaches the store only if the
\* caller is authenticated and is admin or of the node's account, and every
\* such request with valid parameters does reach it; an unauthenticated
\* caller gets 401, an unknown node 404, a non-admin caller of another
\* account 403, each without a store call; every store call carries the
\* node's own account.
C21_HistoryAccessControl ==
    HistoryAsked =>
       /\ edgeStore # <<>> => Authorized(edgeReq)
       /\ (Authorized(edgeReq) /\ ~HistoryStatus400) => edgeStore # <<>>
       /\ edgeReq.caller = "none" => (edgeResp.status = 401 /\ edgeStore = <<>>)
       /\ (edgeReq.caller # "none" /\ edgeReq.nodeAccount = "unknown") =>
             (edgeResp.status = 404 /\ edgeStore = <<>>)
       /\ (edgeReq.caller # "none" /\ edgeReq.nodeAccount # "unknown"
             /\ ~edgeReq.admin /\ edgeReq.caller # edgeReq.nodeAccount) =>
             (edgeResp.status = 403 /\ edgeStore = <<>>)
       /\ \A i \in 1..Len(edgeStore) :
             edgeStore[i].params.AccountID = edgeReq.nodeAccount

\* An admin of another account has read a node's history.
C21_Witness ==
    /\ HistoryAsked
    /\ edgeReq.admin
    /\ edgeReq.caller # edgeReq.nodeAccount
    /\ edgeResp.status = 200
    /\ Len(edgeStore) = 2

\* C22: every store call of a health-history request has from <= to,
\* 1 <= limit <= 2000 and offset >= 0, the limit being 300 when the
\* parameter is absent, not a number or not positive; a request whose from
\* is after its to is answered 400 without a store call.
C22_HistoryParams ==
    HistoryDone =>
       /\ \A i \in 1..Len(edgeStore) :
             LET q == edgeStore[i].params IN
             /\ q.From <= q.To
             /\ 1 <= q.Limit /\ q.Limit <= 2000
             /\ q.Offset >= 0
             /\ (edgeReq.limit.kind # "num" \/ edgeReq.limit.n <= 0) =>
                   q.Limit = 300
       /\ (edgeReq.from.kind = "time" /\ edgeReq.to.kind = "time"
             /\ edgeReq.from.t > 0 /\ edgeReq.to.t > 0
             /\ edgeReq.from.t > edgeReq.to.t) => edgeStore = <<>>
       /\ (HistoryAsked /\ Authorized(edgeReq)
             /\ edgeReq.from.kind = "time" /\ edgeReq.to.kind = "time"
             /\ edgeReq.from.t > 0 /\ edgeReq.to.t > 0
             /\ edgeReq.from.t > edgeReq.to.t) => edgeResp.status = 400

\* A request with a limit above the maximum and a negative offset has
\* reached the store.
C22_Witness ==
    /\ HistoryDone
    /\ edgeStore # <<>>
    /\ edgeReq.limit.kind = "num"
    /\ edgeReq.limit.n > 2000
    /\ edgeReq.offset.kind = "num"
    /\ edgeReq.offset.n < 0
    /\ edgeReq.from.kind = "time"
    /\ edgeReq.from.t = edgeReq.to.t
    /\ edgeReq.from.t > 0

(***************************************************************************)
(* Settings endpoint claims.                                                *)
(***************************************************************************)
SettingsCallDone(h) == edgeReq.handler = h /\ edgeResp.status # 0

\* C23: admin only. A list, get, put, batch or delete request of a caller who
\* is not an admin is rejected (403, or 400 when the path carries no key)
\* without any call to the settings store, and the settings table after the
\* call is the table before it.
C23_NonAdminNoStoreAccess ==
    [][/\ (/\ edgeResp.status = 0 /\ edgeResp'.status # 0
            /\ edgeReq'.handler \in {"list", "get", "delete"}
            /\ ~edgeReq'.admin)
          => /\ edgeResp'.status \in {400, 403}
             /\ edgeResp'.status = 400 => edgeReq'.key = ""
             /\ edgeStore' = <<>>
             /\ settings' = settings
       /\ \A r \in Puts :
             (putPc[r] = "new" /\ putPc'[r] # "new" /\ ~putReq'[r].admin)
                => /\ putPc'[r] = "done"
                   /\ putResp'[r].status = 403
                   /\ putExisting'[r] = putExisting[r]
                   /\ settings' = settings
       /\ (nBatch' # nBatch /\ ~lastBatch'.admin)
             => /\ lastBatch'.status = 403
                /\ settings' = settings]_vars

\* A non-admin caller has asked to delete a stored setting and has sent a PUT
\* for one; both were refused and the row is still there.
C23_Witness ==
    /\ SettingsCallDone("delete")
    /\ ~edgeReq.admin
    /\ edgeReq.key \in Keys
    /\ edgeReq.storeEnabled /\ ~edgeReq.storeErr
    /\ settings[edgeReq.key] # NoRow
    /\ edgeResp.status = 403
    /\ \E r \in Puts : putPc[r] = "done" /\ ~putReq[r].admin /\ putResp[r].status = 403

\* C24: secret redaction. A successful list or get returns every row whose
\* is_secret is true with the mask in place of its value and every other row
\* with the value the store holds, and the read leaves the store as it was.
C24_SecretRedaction ==
    [][(/\ edgeResp.status = 0 /\ edgeResp'.status = 200
        /\ edgeReq'.handler \in {"list", "get"})
          => LET data == edgeResp'.body.data IN
             /\ settings' = settings
             /\ DOMAIN data = IF edgeReq'.handler = "list"
                               THEN StoredKeys(settings)
                               ELSE {edgeReq'.key}
             /\ \A k \in DOMAIN data :
                   /\ data[k].version = settings[k].version
                   /\ IF k \in SecretKeys
                      THEN /\ data[k].value = SecretMask
                           /\ settings'[k].value # SecretMask
                      ELSE data[k].value = settings[k].value]_vars

\* A list returned a secret row, written by a PUT before, behind the mask and
\* a row that is not secret with its value.
C24_Witness ==
    /\ SettingsCallDone("list")
    /\ edgeResp.status = 200
    /\ DOMAIN edgeResp.body.data = Keys
    /\ \E k \in SecretKeys :
          /\ edgeResp.body.data[k].value = SecretMask
          /\ settings[k].value > 0
    /\ \E k \in Keys \ SecretKeys :
          edgeResp.body.data[k].value = settings[k].value

(***************************************************************************)
(* WebSocket admission claim.                                               *)
(***************************************************************************)
ValidSession(r) == r.session \in Accounts

ValidToken(r) == r.token \in Accounts /\ r.storeEnabled

\* The request r was handled in this step and created client c.
Admitted(c) == conn[c] = "none" /\ conn'[c] = "open"

\* C25: WebSocket admission. A client is created and handed to the hub only
\* by a request with a valid session or a valid share token, under the
\* session's account when there is a valid session and under the share's
\* account otherwise, and the hub holds it under that account; a request with
\* no valid session and no token or an invalid token is answered 401 and
\* creates no client.
C25_WSAdmission ==
    [][/\ \A c \in Clients :
             Admitted(c) =>
                /\ edgeReq'.handler = "ws"
                /\ ValidSession(edgeReq') \/ ValidToken(edgeReq')
                /\ accountID'[c] = IF ValidSession(edgeReq')
                                   THEN edgeReq'.session
                                   ELSE edgeReq'.token
       /\ \A c \in Clients : conn[c] # "none" => accountID'[c] = accountID[c]
       /\ \A c \in Clients, a \in Accounts :
             c \in clients'[a] => conn'[c] = "open" /\ accountID'[c] = a
       /\ (/\ edgeReq'.handler = "ws" /\ edgeReq'.hub
            /\ ~ValidSession(edgeReq')
            /\ edgeReq'.token \notin Accounts
            /\ <<edgeReq, edgeResp>>' # <<edgeReq, edgeResp>>)
             => /\ edgeResp'.status = 401
                /\ conn' = conn
                /\ registerCh' = registerCh
                /\ clients' = clients]_vars

\* The last request carried a valid session and a valid token of another
\* account; the client it created is held by the hub under the session's
\* account, next to a client admitted earlier.
C25_Witness ==
    /\ edgeReq.handler = "ws"
    /\ edgeResp.status = 101
    /\ edgeReq.session = "a1"
    /\ edgeReq.token = "a2"
    /\ edgeReq.storeEnabled
    /\ \E c \in Clients, d \in Clients :
          /\ d < c
          /\ c \in clients["a1"]
          /\ \E a \in Accounts : d \in clients[a]

(***************************************************************************)
(* Version metadata claim.                                                  *)
(***************************************************************************)
VersionDone == edgeReq.handler = "version" /\ edgeResp.status = 200

WellFormed(b) ==
    b.kind = "stamp" /\ b.sep = "T" /\ b.hour < 24 /\ b.zone # ""

\* C26: GetVersionInfo returns BuildDate unchanged, and BuildDateBeijing is
\* "weizhi" for the empty BuildDate, "kaifa banben" for "dev", BuildDate with
\* the format-error suffix when it is not RFC3339, and otherwise the instant
\* of BuildDate shown on the clock of UTC+8: eight hours past its UTC wall
\* clock, on the next day when that passes midnight.
C26_VersionBeijingCompanion ==
    VersionDone =>
       LET b == edgeReq.BuildDate
           out == edgeResp.body.BuildDateBeijing
           utc == b.hour - ZoneOffset(b.zone)
       IN /\ edgeResp.body.BuildDate = b
          /\ b = Text("") => out = Text("weizhi")
          /\ b = Text("dev") => out = Text("kaifa banben")
          /\ (b \notin {Text(""), Text("dev")} /\ ~WellFormed(b))
                => out = [kind |-> "suffixed", of |-> b]
          /\ WellFormed(b) =>
                /\ out.kind = "beijing"
                /\ out.hour = (utc + 8) % 24
                /\ out.day = IF utc + 8 >= 24 THEN b.day + 1
                              ELSE IF utc + 8 < 0 THEN b.day - 1
                              ELSE b.day

\* A build date late in the UTC evening came out on the next day in Beijing.
C26_Witness ==
    /\ VersionDone
    /\ WellFormed(edgeReq.BuildDate)
    /\ edgeReq.BuildDate.zone = "Z"
    /\ edgeReq.BuildDate.hour = 16
    /\ edgeResp.body.BuildDateBeijing.hour = 0
    /\ edgeResp.body.BuildDateBeijing.day = edgeReq.BuildDate.day + 1
    /\ edgeResp.body.BuildDate = edgeReq.BuildDate

(***************************************************************************)
(* Hub unregistration claim.                                                *)
(***************************************************************************)
\* The Run loop takes the unregister event at the head of the channel.
TakesUnregister(c) ==
    /\ hubPc = "select"
    /\ unregisterCh # <<>>
    /\ Head(unregisterCh) = c
    /\ Len(unregisterCh') < Len(unregisterCh)

C28_LoopNeverBlocks == ~HubBlocked

(***************************************************************************)
(* Scheduler loop claims.                                                   *)
(***************************************************************************)
\* C29: Stopped is terminal. A loop that has exited stays exited, and a loop
\* waiting at its select starts no task once the stop channel is closed, even
\* with the timer or ticker ready at that moment.
C29_StoppedIsTerminal ==
    [][\A l \in Loops :
          /\ loopPc[l] = "exited" => loopPc'[l] = "exited"
          /\ (stopCh = "closed" /\ loopPc[l] \in {"timer", "ticker"})
                => loopPc'[l] # "task"]_vars

\* C30: shutdown cancels in-flight work. A task context that is live when the
\* stop channel is closed (or is made while it is closed) is eventually over,
\* cancelled by its goroutine if nothing else ends it first; and the
\* goroutine of a context that ended by its deadline or by the task's own
\* cancel eventually returns, so none is left waiting on the stop channel.
C30_ShutdownCancels ==
    /\ \A l \in Loops :
          (stopCh = "closed" /\ taskCtx[l] = "live") ~> (taskCtx[l] # "live")
    /\ \A l \in Loops : (Stale(l) > 0) ~> (Stale(l) = 0)
    /\ [](\A l \in Loops : Stale(l) >= 0)

\* After the stop one loop's task was cancelled by its goroutine in the
\* middle of its storage calls, the other loop's context had run into its
\* deadline, and no goroutine of taskContext is left.
C30_Witness ==
    /\ stopCh = "closed"
    /\ \E l \in Loops, k \in Loops :
          /\ l # k
          /\ taskCtx[l] = "cancelled"
          /\ Len(invoked[l]) >= 1
          /\ loopPc[l] = "task"
          /\ taskCtx[k] = "expired"
          /\ watchers[l] = 0 /\ watchers[k] = 0


(***************************************************************************)
(* Aggregation tick claims.                                                 *)
(***************************************************************************)
\* The raw rows of account a and node n with a timestamp in the hour from h.
RawOfHour(a, n, h) ==
    {r \in TableRows(rawRows, aggTbl, "raw") :
        r.account_id = a /\ r.node_id = n /\ InWindow(r.t, h, h + HourLen)}

\* The hourly table holds the row of (a, n, h) with the sums of the raw rows.
HourlyComplete(a, n, h) ==
    \E d \in aggTbl["hour"] :
        /\ RowKey(d) = <<a, n, h>>
        /\ d.requests_total = SumOf(RawOfHour(a, n, h), "requests_total")
        /\ d.requests_success = SumOf(RawOfHour(a, n, h), "requests_success")
        /\ d.requests_failed = SumOf(RawOfHour(a, n, h), "requests_failed")
        /\ d.response_time_count = SumOf(RawOfHour(a, n, h), "response_time_count")

\* C31: after every aggregation tick, whatever instant of its hour the tick
\* reads as now, the hourly row of every (account, node) for every hour that
\* had fully elapsed at that instant holds the sums of all raw rows of that
\* hour: no tick leaves or makes the row a partial sum.
C31_HourlyRowsComplete ==
    lastCall.op = "tick" =>
        \A h \in TickHours, a \in {"default", "a1"} :
            (h + HourLen <= lastCall.args[2] /\ RawOfHour(a, "n1", h) # {})
                => HourlyComplete(a, "n1", h)


(***************************************************************************)
(* AggregateMetrics frame claim.                                            *)
(***************************************************************************)
\* The source rows of a rollup of target over [from, to) that fall in the
\* bucket of destination row d and carry its account and node.
SourcesOf(d, target, from, to) ==
    {r \in TableRows(rawRows, aggTbl, aggregationPlan(target).src) :
        /\ InWindow(r.t, from, to)
        /\ <<r.account_id, r.node_id, Bucket(r.t, aggregationPlan(target).len)>> = RowKey(d)}

\* What one AggregateMetrics(acctID, target, from, to) call may change.
AggregateFrame(acctID, target, from, to) ==
    LET dst == aggregationPlan(target).dst
    IN /\ rawRows' = rawRows
       /\ \A g \in AggTables \ {dst} : aggTbl'[g] = aggTbl[g]
       /\ dst \in AggTables =>
             \A d \in aggTbl[dst] \cup aggTbl'[dst] :
                 (d \in aggTbl[dst]) # (d \in aggTbl'[dst]) =>
                     /\ SourcesOf(d, target, from, to) # {}
                     /\ acctID # "" => d.account_id = acctID

\* C32: an AggregateMetrics call changes only destination rows whose
\* (account, node, bucket) has a source row in the window; the source rows,
\* the other tables, the destination rows of other buckets and, under an
\* account filter, the destination rows of other accounts stay as they were.
C32_AggregateFrame ==
    [][lastCall'.op = "aggregate" /\ storeOps' = storeOps + 1 =>
          LET a == lastCall'.args
              w == AggWindow(a[2], a[3], a[4], a[5])
          IN AggregateFrame(a[1], a[2], w.from, w.to)]_vars

\* A rollup filtered to account a1 has rewritten a row of a1 left by an
\* earlier rollup, next to a row of a1 in another bucket and rows of the
\* default account that it left alone.
C32_Witness ==
    /\ lastCall.op = "aggregate"
    /\ lastCall.args[1] = "a1"
    /\ lastCall.args[2] = "hour"
    /\ \E d \in aggTbl["hour"] : d.account_id = "a1" /\ d \notin Leftover("hour")
    /\ \E d \in aggTbl["hour"] : d.account_id = "a1" /\ d \in Leftover("hour")
    /\ \A d \in Leftover("hour") : d.account_id = "default" => d \in aggTbl["hour"]
    /\ \E i \in 1..Len(rawRows) : rawRows[i].account_id = "default"


(***************************************************************************)
(* Ingest counter claim.                                                    *)
(***************************************************************************)
\* C33: every counter of a raw row written by InsertMetrics is non-negative
\* (the submitted records all have non-negative counters, among them records
\* with requests_success = 0 and requests_failed > requests_total).
C33_CountersNonNegative ==
    \A i \in 1..Len(rawRows) :
        /\ rawRows[i].requests_total >= 0
        /\ rawRows[i].requests_success >= 0
        /\ rawRows[i].requests_failed >= 0
        /\ rawRows[i].response_time_count >= 0


(***************************************************************************)
(* First-delay claim.                                                       *)
(***************************************************************************)
DelayDone == edgeReq.handler = "delay" /\ edgeResp.status = 200

\* C34: the first fire of each loop is strictly in the future and aligned.
\* The aggregation delay is in (0, interval] and now + delay is a multiple of
\* the aggregate interval.  With a cleanup interval of 20 hours or more the
\* cleanup delay is in (0, 24h] and now + delay is 02:00 UTC of today when
\* that is after now and of tomorrow otherwise; with a shorter one the delay
\* is the cleanup interval.
C34_FirstFireAligned ==
    DelayDone =>
        LET now == edgeReq.now
            b == edgeResp.body
            today == (now - (now % ClockDay)) + cleanupHour * HourLen
        IN /\ 0 < b.aggregateDelay /\ b.aggregateDelay <= b.aggregateInterval
           /\ (now + b.aggregateDelay) % b.aggregateInterval = 0
           /\ b.cleanupInterval >= 20 * HourLen =>
                 /\ 0 < b.cleanupDelay /\ b.cleanupDelay <= ClockDay
                 /\ now + b.cleanupDelay = IF today > now THEN today ELSE today + ClockDay
                 /\ (now + b.cleanupDelay) % ClockDay = cleanupHour * HourLen
           /\ b.cleanupInterval < 20 * HourLen => b.cleanupDelay = b.cleanupInterval

\* The loops started at 02:00 sharp, which is also a multiple of the
\* aggregate interval: the cleanup waits a whole day, the aggregation a
\* whole interval.
C34_Witness ==
    /\ DelayDone
    /\ edgeReq.now = ClockDay + cleanupHour * HourLen
    /\ edgeReq.cleanupInterval = ClockDay
    /\ edgeResp.body.cleanupDelay = ClockDay
    /\ edgeReq.aggregateInterval = HourLen
    /\ edgeResp.body.aggregateDelay = HourLen


(***************************************************************************)
(* Cache locking claim.                                                     *)
(***************************************************************************)
\* C35: no callback is invoked by a goroutine that holds the cache mutex,
\* and every call into the cache returns, also a call made by a callback
\* (Get, Set, UpdateLocal, OnChange or Refresh on the same cache) while
\* another goroutine is inside the cache.
C35_CallbacksOutsideLock ==
    /\ [](heldCalls = 0)
    /\ \A g \in Goroutines : (stack[g] # <<>>) ~> (g \in finished)

\* A callback invoked by g1 has called Set and is inside its locked section
\* while g2 is blocked in Lock.
C35_Witness ==
    /\ Len(stack["g1"]) = 2
    /\ Top("g1").op = "Set"
    /\ muWriter = "g1"
    /\ "g2" \in muWaiting


(***************************************************************************)
(* Cache Set claim.                                                         *)
(***************************************************************************)
\* The invocations a notifyChange(key, value) for mutation ev adds.
OnePerCallback(key, value, ev) ==
    SetToBag({[cb |-> f, key |-> key, value |-> value, ev |-> ev] : f \in Callbacks})

\* C36: Set writes through before it updates locally.  When UpsertSetting
\* fails Set returns the error with the map, the version cursor and the
\* callback invocations as they were.  When it succeeds the table holds the
\* value before the map does, then the map holds the value and the cursor
\* is the maximum of the cursor and the new version, and then every callback
\* is invoked once with (key, value).
C36_SetWritesThrough ==
    [][/\ (wPc' = "failed" \/ wPc = "failed") =>
            /\ cacheData' = cacheData
            /\ cacheVersion' = cacheVersion
            /\ calls' = calls
            /\ settings' = settings
            /\ wPc' \in {"failed", "idle"}
       /\ (wPc' = "stored" /\ wArgs'.op = "Set") =>
            /\ settings'[wArgs'.key] = [version |-> wArgs'.version, value |-> wArgs'.value]
            /\ wArgs'.version > 0
            /\ cacheData' = cacheData /\ cacheVersion' = cacheVersion /\ calls' = calls
       /\ (wPc = "stored" /\ wArgs.op = "Set" /\ wPc' # "stored") =>
            /\ cacheData' = [cacheData EXCEPT ![wArgs.key] = wArgs.value]
            /\ cacheVersion' = maxInt64(cacheVersion, wArgs.version)
            /\ calls' = calls
            /\ wPc' = "notify"
       /\ (wPc = "notify" /\ wArgs.op = "Set" /\ wPc' # "notify") =>
            /\ calls' = calls (+) OnePerCallback(wArgs.key, wArgs.value, wArgs.ev)
            /\ cacheData' = cacheData /\ cacheVersion' = cacheVersion
            /\ cacheData[wArgs.key] = wArgs.value]_vars

\* A Set of k2 has succeeded with a new version below the cursor and its
\* callback has been invoked; a later Set of k1 is failing.
C36_Witness ==
    /\ wPc = "failed"
    /\ wArgs.key = "k1"
    /\ cacheData["k1"] # wArgs.value
    /\ settings["k2"].version = 1
    /\ cacheVersion = 2
    /\ \E e \in BagToSet(calls) : e.key = "k2" /\ e.value = cacheData["k2"] /\ e.ev > 0


(***************************************************************************)
(* Cache cursor and concurrent Refresh claims.                              *)
(***************************************************************************)
\* C37: the version cursor of the cache never decreases, whatever the
\* interleaving of Set, UpdateLocal and Refresh.
C37_CursorMonotonic ==
    [][cacheVersion' >= cacheVersion]_vars

\* The last mutation of the row of k was a write of Set or UpdateLocal that
\* has since returned.
WriteReturned(k) ==
    /\ rowEvent[k] > 0
    /\ settings[k].version > 0
    /\ ~(wPc # "idle" /\ wArgs.key = k)

\* C38: once Set(k, v) or UpdateLocal(k, v, ver) has returned and the row of
\* k has not been mutated since, Get(k) returns v, also when a Refresh
\* installs a snapshot it read before the write.
C38_RefreshNeverReverts ==
    \A k \in Keys :
        WriteReturned(k) => Get(cacheData, k) = [v |-> settings[k].value, ok |-> TRUE]


(***************************************************************************)
(* Global version claim.                                                    *)
(***************************************************************************)
\* C39: every successful create, update or delete of a setting leaves the
\* global version (the maximum version over all settings) strictly greater
\* than it was before the mutation.
C39_GlobalVersionAdvances ==
    [][settings' # settings =>
          GetGlobalVersion(settings') > GetGlobalVersion(settings)]_vars

====
